---- MODULE Spec2Model ----
(***************************************************************************)
(* Model of the Economic Indicators Extractor (src/src/main.py):           *)
(*   - indicator ingestion (process_economic_indicators) and gap filling   *)
(*     (forward_backward_fill_indicator) on one interval table;            *)
(*   - event reconciliation (batch_insert_events) on asset event tables;   *)
(*   - the orchestrator (resolve_EIE, process_events).                     *)
(* Dates are day numbers relative to 2000-01-01 (day 0).  Numeric values   *)
(* are kept in hundredths (5.25 is 525).  A nullable cell is a set with at *)
(* most one element: {} is SQL NULL / Python None.                         *)
(***************************************************************************)
EXTENDS Integers, Sequences, FiniteSets, TLC

VARIABLES
    interval,   \* the interval table modelled ("daily" or "weekly")
    tbl,        \* rows of "dyGEO".<interval>_economic_indicator_log as the cursor sees them
    ctbl,       \* the committed rows of that table
    last,       \* what the last indicator operation read and wrote
    nops,       \* indicator operations performed so far
    upstream,   \* the series the upstream source serves for each pair
    passed,     \* pairs ingested since the table was last touched by anything else
    rerun,      \* the last ingestion pass repeated a pass over the unchanged series
    shown_warnings, \* the conversion warnings the run has shown
    printed     \* the conversion warnings printed, in order

indVars == <<interval, tbl, ctbl, last, nops, upstream, passed, rerun, shown_warnings, printed>>

VARIABLES
    ev,         \* rows of "ASSET_<symbol>".asset_events_data as the cursor sees them
    cev,        \* the committed rows of that table
    elast,      \* what the last batch_insert_events call read and planned
    ecalls      \* batch_insert_events calls so far

evVars == <<ev, cev, elast, ecalls>>

VARIABLES
    pc,         \* the step resolve_EIE is at
    attempts,   \* connection attempts made
    sleeps,     \* delays slept between connection attempts
    step,       \* position in the loop of the current phase
    result,     \* what the call returned
    txFailed,   \* a statement failed and the transaction is aborted
    warnings,   \* the warnings list of the asset in process_events
    skipped,    \* pairs whose fetch failed
    ingested,   \* pairs whose pass found upstream entries after the watermark
    others,     \* what became of the assets after the one under study
    total_indicators_inserted,
    total_events_inserted

runVars == <<pc, attempts, sleeps, step, result, txFailed, warnings, skipped, ingested, others,
             total_indicators_inserted, total_events_inserted>>

VARIABLES
    fname,      \* the pure function applied, "" before the call
    fin,        \* its arguments
    fout        \* what it returned

pureVars == <<fname, fin, fout>>

VARIABLES
    runs        \* of each of two concurrent runs: where it is and what it has read

concVars == <<runs>>

vars == <<indVars, evVars, runVars, pureVars, concVars>>

(***************************************************************************)
(* Bounds                                                                  *)
(***************************************************************************)
FirstDay == 10      \* the first day upstream serves (2000-01-11)
MaxDays == 3        \* upstream serves MaxDays consecutive days from FirstDay on
MaxEntries == 2     \* entries in one upstream payload
MaxOps == 3         \* ingestion and gap-fill passes in one behaviour
MaxFillRows == 4    \* rows of a table handed to the gap filler
MaxEvDay == 3       \* event dates are the days 1..MaxEvDay
MaxRateDay == 1     \* rate events are dated 1..MaxRateDay
MaxBatch == 2       \* incoming events of one batch_insert_events call
MaxCalls == 2       \* batch_insert_events calls in one behaviour
MaxFilter == 2      \* entries of a ticker filter
MaxFactor == 8      \* numerator and denominator of a split factor
MaxKindEvents == 1  \* well-formed entries of one kind's payload
MaxSort == 3        \* events in a list to sort
MaxSeriesDay == 13  \* months of a fetched rate series

(***************************************************************************)
(* Program constants                                                       *)
(***************************************************************************)
DefaultPrevDate == 0    \* datetime.strptime('2000-01-01'), the watermark of an empty column
ShiftDays == 5          \* timedelta(days=5) of the weekly federal funds rate
CountryPK == 237        \* the country key written with every inserted row
MaxRetries == 5         \* connect_with_retries(retries=5)
RateKeep == 12      \* rate records retained

(***************************************************************************)
(* Generic helpers                                                         *)
(***************************************************************************)
SetMax(S) == CHOOSE x \in S : \A y \in S : y <= x

Reverse(s) == [i \in 1..Len(s) |-> s[Len(s) + 1 - i]]

SeqsUpTo(S, n) == UNION {[1..k -> S] : k \in 0..n}

Range(s) == {s[i] : i \in DOMAIN s}

(***************************************************************************)
(* Value normalisation: float(value_) / int(float(value_))                 *)
(***************************************************************************)
ValueStrings == {"5.5", "5.25", ".", "abc"}

\* float() of the strings it accepts, in hundredths; every other string raises ValueError
FloatOf == [s \in {"5.5", "5.25"} |-> IF s = "5.5" THEN 550 ELSE 525]

IntColumns == {"MTNPTP_value", "TNPTP_value", "DTCMRP_value"}

ConvertValue(column_name, value_) ==
    IF value_ \notin DOMAIN FloatOf THEN {}
    ELSE IF column_name \in IntColumns
         THEN {(FloatOf[value_] \div 100) * 100}
         ELSE {FloatOf[value_]}

(***************************************************************************)
(* The indicator table                                                     *)
(***************************************************************************)
Suffixes == {"EFFRP_value", "TCMRP_value"}

Intervals == {"daily", "weekly"}

prefix_map == [daily |-> "D", weekly |-> "W"]

\* the pairs of one interval table in the order of interval_dict.items()
items == <<"EFFRP_value", "TCMRP_value">>

ColumnName(list_, suffix) == prefix_map[list_] \o suffix

NoCells == [s \in Suffixes |-> {}]

Dates(t) == {r.date : r \in t}

RowsAt(t, d) == {r \in t : r.date = d}

\* SELECT MAX(date) WHERE column IS NOT NULL: {} when the column has no value
Watermark(t, suffix) ==
    LET S == {r.date : r \in {x \in t : x.cells[suffix] # {}}}
    IN IF S = {} THEN {} ELSE {SetMax(S)}

\* prev_date = fetchone()[0] or 2000-01-01
PrevDate(t, suffix) ==
    IF Watermark(t, suffix) = {} THEN DefaultPrevDate
    ELSE SetMax(Watermark(t, suffix))

\* id_ = SELECT MAX(ID) or 0
MaxId(t) == IF t = {} THEN 0 ELSE SetMax({r.id : r \in t})

MaxPk(t) == IF t = {} THEN 0 ELSE SetMax({r.pk : r \in t})

(***************************************************************************)
(* process_economic_indicators: one (indicator, interval) pair             *)
(***************************************************************************)
\* a fetched payload: the list of {date, value} entries, in upstream order
Entry(d, v) == [date |-> d, value |-> v]

IsNewEntryInclusive(entry, prev_date) == entry.date >= prev_date

\* line 178: entry['date'] > prev_date, on the upstream (unshifted) date
IsNewEntry(entry, prev_date) == entry.date > prev_date

NewData(data_list, prev_date) ==
    Reverse(SelectSeq(data_list, LAMBDA entry : IsNewEntry(entry, prev_date)))

\* lines 192-196: the date an entry is stored at
StoredDateNoShift(column_name, d) == d

StoredDate(column_name, d) ==
    IF column_name = "WEFFRP_value" THEN d - ShiftDays ELSE d

\* lines 195-198: a shifted entry that lands on the watermark is dropped
DropOnWatermarkNever(column_name, date, prev_date) == FALSE

DropOnWatermark(column_name, date, prev_date) ==
    column_name = "WEFFRP_value" /\ date = prev_date

\* date_data after the loop of lines 191-219: the keys in insertion order, the
\* value of each key, and the warnings shown
\* lines 211-214: the warning is printed unless the run has shown it
ShowAlways(dd, warning_msg) ==
    [dd EXCEPT !.printed = Append(@, warning_msg), !.warned = @ \cup {warning_msg}]

ShowOnce(dd, warning_msg) ==
    IF warning_msg \in dd.warned THEN dd
    ELSE [dd EXCEPT !.printed = Append(@, warning_msg), !.warned = @ \cup {warning_msg}]

EmptyDateData == [keys |-> <<>>, val |-> <<>>, warned |-> {}, printed |-> <<>>]

PutDateData(dd, date, value) ==
    [keys |-> IF date \in Range(dd.keys) THEN dd.keys ELSE Append(dd.keys, date),
     val |-> [d \in Range(dd.keys) \cup {date} |-> IF d = date THEN value ELSE dd.val[d]],
     warned |-> dd.warned,
     printed |-> dd.printed]

RECURSIVE BuildDateData(_, _, _, _, _)
BuildDateData(new_data, i, column_name, prev_date, dd) ==
    IF i > Len(new_data) THEN dd
    ELSE LET entry == new_data[i]
             date == StoredDate(column_name, entry.date)
             conv == ConvertValue(column_name, entry.value)
             next == IF DropOnWatermark(column_name, date, prev_date) THEN dd
                     ELSE IF entry.value \in {".", ""} THEN dd
                     ELSE IF conv = {}
                          THEN ShowOnce(dd, <<entry.value, column_name>>)
                          ELSE PutDateData(dd, date, SetMax(conv))
         IN BuildDateData(new_data, i + 1, column_name, prev_date, next)

\* lines 231-234: existing_dates = dict(fetchall()); of several rows of one date
\* the one fetched last (the highest key) stays in the dict
ExistingDatesNone(t, dates_list) == {}

ExistingDates(t, dates_list) == {d \in dates_list : RowsAt(t, d) # {}}

ExistingPk(t, d) == SetMax({r.pk : r \in RowsAt(t, d)})

\* lines 236-247: id_ += 1 for every date; an update for a date that has a row,
\* an insert otherwise
SplitUpdates(t, dd, suffix) ==
    LET ex == ExistingDates(t, Range(dd.keys))
        idx == SelectSeq([i \in 1..Len(dd.keys) |-> i], LAMBDA i : dd.keys[i] \in ex)
    IN [k \in 1..Len(idx) |->
           [value |-> dd.val[dd.keys[idx[k]]], pk |-> ExistingPk(t, dd.keys[idx[k]]),
            col |-> suffix, date |-> dd.keys[idx[k]]]]

SplitInserts(t, dd, id_) ==
    LET ex == ExistingDates(t, Range(dd.keys))
        idx == SelectSeq([i \in 1..Len(dd.keys) |-> i], LAMBDA i : dd.keys[i] \notin ex)
    IN [k \in 1..Len(idx) |->
           [id |-> id_ + idx[k], country |-> CountryPK, date |-> dd.keys[idx[k]],
            value |-> dd.val[dd.keys[idx[k]]]]]

\* lines 250-253: UPDATE ... SET column = value WHERE PK = pk
ApplyUpdates(t, updates) ==
    {IF \E i \in DOMAIN updates : updates[i].pk = r.pk
     THEN LET i == SetMax({j \in DOMAIN updates : updates[j].pk = r.pk})
          IN [r EXCEPT !.cells[updates[i].col] = {updates[i].value}]
     ELSE r : r \in t}

\* lines 256-264: COPY of (ID, country, date, column); the key comes from the
\* table's sequence
InsertedRows(t, inserts, suffix) ==
    {[pk |-> MaxPk(t) + k, id |-> inserts[k].id, date |-> inserts[k].date,
      cells |-> [NoCells EXCEPT ![suffix] = {inserts[k].value}]] : k \in DOMAIN inserts}

\* the whole pass of one pair over a fetched list (lines 147-267)
IngestPair(t, list_, suffix, data_list, shown) ==
    LET column_name == ColumnName(list_, suffix)
        prev_date == PrevDate(t, suffix)
        id_ == MaxId(t)
        new_data == NewData(data_list, prev_date)
        dd == BuildDateData(new_data, 1, column_name, prev_date,
                            [EmptyDateData EXCEPT !.warned = shown])
        updates == SplitUpdates(t, dd, suffix)
        inserts == SplitInserts(t, dd, id_)
    IN [tbl |-> ApplyUpdates(t, updates) \cup InsertedRows(t, inserts, suffix),
        prev_date |-> prev_date,
        already |-> Len(new_data) = 0,
        commit |-> Len(dd.keys) > 0,
        updates |-> updates,
        inserts |-> inserts,
        warned |-> dd.warned,
        printed |-> dd.printed]

(***************************************************************************)
(* forward_backward_fill_indicator                                         *)
(***************************************************************************)
\* line 19: SELECT date, column ... ORDER BY date
RECURSIVE OrderByDate(_)
OrderByDate(t) ==
    IF t = {} THEN <<>>
    ELSE LET r == CHOOSE x \in t : \A y \in t :
                      x.date < y.date \/ (x.date = y.date /\ x.pk <= y.pk)
         IN <<r>> \o OrderByDate(t \ {r})

\* line 25: the first non-null value, {} when there is none
FirstValid(records, suffix) ==
    LET idx == {i \in DOMAIN records : records[i].cells[suffix] # {}}
    IN IF idx = {} THEN {}
       ELSE records[CHOOSE i \in idx : \A j \in idx : i <= j].cells[suffix]

\* lines 30-36: (last_known_value, date) for every null record
FillUpdatesNoCarry(records, i, suffix, last_known_value) ==
    [k \in 1..Len(SelectSeq(records, LAMBDA r : r.cells[suffix] = {})) |->
        [value |-> last_known_value,
         date |-> SelectSeq(records, LAMBDA r : r.cells[suffix] = {})[k].date]]

FillUpdatesEvery(records, i, suffix, last_known_value) ==
    [k \in DOMAIN records |-> [value |-> last_known_value, date |-> records[k].date]]

RECURSIVE FillUpdates(_, _, _, _)
FillUpdates(records, i, suffix, last_known_value) ==
    IF i > Len(records) THEN <<>>
    ELSE IF records[i].cells[suffix] # {}
         THEN FillUpdates(records, i + 1, suffix, SetMax(records[i].cells[suffix]))
         ELSE <<[value |-> last_known_value, date |-> records[i].date]>>
              \o FillUpdates(records, i + 1, suffix, last_known_value)

\* line 40: UPDATE ... SET column = value WHERE date = d AND column IS NULL
ApplyFill(t, suffix, updates) ==
    {IF r.cells[suffix] = {} /\ \E i \in DOMAIN updates : updates[i].date = r.date
     THEN LET i == CHOOSE j \in DOMAIN updates :
                      updates[j].date = r.date
                      /\ \A k \in DOMAIN updates : updates[k].date = r.date => j <= k
          IN [r EXCEPT !.cells[suffix] = {updates[i].value}]
     ELSE r : r \in t}

forward_backward_fill_indicator(t, suffix) ==
    LET records == OrderByDate(t)
        first_valid_value == FirstValid(records, suffix)
    IN IF records = <<>> \/ first_valid_value = {} THEN [tbl |-> t, updates |-> <<>>]
       ELSE LET updates == FillUpdates(records, 1, suffix, SetMax(first_valid_value))
            IN [tbl |-> ApplyFill(t, suffix, updates), updates |-> updates]

(***************************************************************************)
(* Events.  A date field is nullable; a detail payload (a dict, and the    *)
(* JSON object json.dumps writes and json.loads reads back) is a record    *)
(* whose fields are the keys present, each holding a nullable value: key   *)
(* presence and null values survive the round trip through the notes text. *)
(***************************************************************************)
\* dict.get(key): {} for a missing key as for a null value
Get(d, k) == IF k \in DOMAIN d THEN d[k] ELSE {}

\* get_quarter_from_date / f"Q{((d.month-1)//3)+1}" and d.year: two days a quarter
QuarterOf(d) == IF ((d - 1) \div 2) % 4 = 0 THEN "Q1"
                ELSE IF ((d - 1) \div 2) % 4 = 1 THEN "Q2"
                ELSE IF ((d - 1) \div 2) % 4 = 2 THEN "Q3" ELSE "Q4"

YearOf(d) == 2024 + (d - 1) \div 8

\* lines 333-335 and 362-364: (event_pk, strftime or '', strftime or '')
EventKey(event_pk, ann, start) == <<event_pk, ann, start>>

RowKey(r) == EventKey(r.event_pk, r.ann, r.start)

\* lines 337-344: the stored row is an expected earnings placeholder
IsExpectedRow(r) ==
    /\ r.notes # <<>>
    /\ r.event_pk = 2
    /\ ("estimate" \in DOMAIN r.notes \/ Get(r.notes, "source") = {"earnings_calendar"})

\* lines 376 and 385: the incoming event is an actual earnings result
IsNewActual(e) == e.event_pk = 2 /\ Get(e.details, "estimate") = {}

\* lines 305-324: _extract_qy, <<q, y>> as nullables
ExtractQY(notes_obj, start_date, ann_date) ==
    LET q == Get(notes_obj, "quarter")
        y == Get(notes_obj, "year")
        d == IF start_date # {} THEN start_date ELSE ann_date
    IN IF (q = {} \/ y = {}) /\ d # {}
       THEN <<{QuarterOf(SetMax(d))}, {YearOf(SetMax(d))}>>
       ELSE <<q, y>>

\* lines 388-397: the quarter and year of an incoming actual
NewQY(e) ==
    LET q == Get(e.details, "quarter")
        y == Get(e.details, "year")
    IN IF q # {} /\ y # {} THEN <<q, y>>
       ELSE IF e.start # {} THEN <<{QuarterOf(SetMax(e.start))}, {YearOf(SetMax(e.start))}>>
       ELSE IF e.ann # {} THEN <<{QuarterOf(SetMax(e.ann))}, {YearOf(SetMax(e.ann))}>>
       ELSE <<q, y>>

\* lines 348-353: expected_by_qy and expected_by_start, as lookups
ExpectedByQY(rows, qy) ==
    {r.pk : r \in {x \in rows : IsExpectedRow(x)
                                /\ ExtractQY(x.notes, x.start, x.ann) = qy
                                /\ qy[1] # {} /\ qy[2] # {}}}

AnyByStart(rows, start) ==
    {r.pk : r \in {x \in rows : x.start # {} /\ x.start = start}}

ExpectedByStart(rows, start) ==
    {r.pk : r \in {x \in rows : IsExpectedRow(x) /\ x.start # {} /\ x.start = start}}

\* lines 398-402: the placeholders an unmatched actual marks for deletion
PlaceholdersByStartOnly(rows, e) ==
    IF e.start # {} THEN ExpectedByStart(rows, e.start) ELSE {}

PlaceholdersOf(rows, e) ==
    (IF NewQY(e)[1] # {} /\ NewQY(e)[2] # {} THEN ExpectedByQY(rows, NewQY(e)) ELSE {})
    \cup (IF e.start # {} THEN ExpectedByStart(rows, e.start) ELSE {})

\* lines 368-372: the stored row whose key equals the incoming key; of several
\* such rows the loop over the set meets any one first
ExistingMatch(rows, e, first) ==
    LET same == {r \in rows : RowKey(r) = EventKey(e.event_pk, e.ann, e.start)}
    IN IF same = {} THEN {}
       ELSE IF first = "low" THEN {CHOOSE r \in same : \A x \in same : r.pk <= x.pk}
       ELSE {CHOOSE r \in same : \A x \in same : x.pk <= r.pk}

TheRow(m) == CHOOSE r \in m : TRUE

EmptyPlan == [events_to_update |-> <<>>, expected_to_delete |-> {}, new_events |-> <<>>]

PromotesAnyActual(row, e) == IsNewActual(e)

\* lines 375-379: the matched row is a placeholder and the event an actual
Promotes(row, e) == IsExpectedRow(row) /\ IsNewActual(e)

KeepFirstOnly(rows, e, new_events) == IF new_events = <<>> THEN <<e>> ELSE new_events

KeepIfPlaceholder(rows, e, new_events) ==
    IF IsNewActual(e) /\ PlaceholdersOf(rows, e) = {} THEN new_events
    ELSE Append(new_events, e)

\* line 404: an event whose key no stored row has is kept for insertion
KeepForInsertion(rows, e, new_events) == Append(new_events, e)

\* lines 358-404: the loop over the incoming events
RECURSIVE BuildPlan(_, _, _, _, _)
BuildPlan(rows, events, i, first, plan) ==
    IF i > Len(events) THEN plan
    ELSE LET e == events[i]
             m == ExistingMatch(rows, e, first)
             next ==
                 IF m # {}
                 THEN IF Promotes(TheRow(m), e)
                      THEN [plan EXCEPT !.events_to_update =
                               Append(@, [pk |-> TheRow(m).pk, notes |-> e.details])]
                      ELSE plan
                 ELSE [plan EXCEPT
                          !.expected_to_delete =
                              IF IsNewActual(e) THEN @ \cup PlaceholdersOf(rows, e) ELSE @,
                          !.new_events = KeepForInsertion(rows, e, @)]
         IN BuildPlan(rows, events, i + 1, first, next)

\* line 409: DELETE ... WHERE PK = ANY(expected_to_delete)
ApplyDeletes(rows, pks) == {r \in rows : r.pk \notin pks}

\* lines 414-415: UPDATE ... SET notes = notes_json WHERE PK = pk, in order
RECURSIVE ApplyNotes(_, _, _)
ApplyNotes(rows, updates, i) ==
    IF i > Len(updates) THEN rows
    ELSE ApplyNotes({IF r.pk = updates[i].pk THEN [r EXCEPT !.notes = updates[i].notes]
                     ELSE r : r \in rows}, updates, i + 1)

\* lines 427-430: the stored payload is the detail payload without its source key
StoredNotes(details) == [k \in DOMAIN details \ {"source"} |-> details[k]]

\* lines 421-443: keys and identifiers from the current maxima, then COPY
EvMaxPk(rows) == IF rows = {} THEN 0 ELSE SetMax({r.pk : r \in rows})

EvMaxId(rows) == IF rows = {} THEN 0 ELSE SetMax({r.id : r \in rows})

NewRowsOneKey(rows, new_events) ==
    {[pk |-> EvMaxPk(rows) + 1, id |-> EvMaxId(rows) + i,
      event_pk |-> new_events[i].event_pk, ann |-> new_events[i].ann,
      start |-> new_events[i].start, notes |-> StoredNotes(new_events[i].details)]
        : i \in DOMAIN new_events}

NewRows(rows, new_events) ==
    {[pk |-> EvMaxPk(rows) + i, id |-> EvMaxId(rows) + i,
      event_pk |-> new_events[i].event_pk, ann |-> new_events[i].ann,
      start |-> new_events[i].start, notes |-> StoredNotes(new_events[i].details)]
        : i \in DOMAIN new_events}

ApplyPlanMaxFirst(rows, plan) ==
    ApplyNotes(ApplyDeletes(rows, plan.expected_to_delete), plan.events_to_update, 1)
    \cup NewRows(rows, plan.new_events)

\* lines 406-443: the deletes, then the updates, then the inserts of a plan
ApplyPlan(rows, plan) ==
    LET kept == ApplyNotes(ApplyDeletes(rows, plan.expected_to_delete),
                           plan.events_to_update, 1)
    IN kept \cup NewRows(kept, plan.new_events)

\* batch_insert_events (lines 285-445) when no statement fails
batch_insert_events(rows, events, first) ==
    IF events = <<>> THEN [tbl |-> rows, plan |-> EmptyPlan, ret |-> 0, listed |-> TRUE]
    ELSE LET plan == BuildPlan(rows, events, 1, first, EmptyPlan)
         IN [tbl |-> ApplyPlan(rows, plan),
             plan |-> plan,
             ret |-> IF plan.new_events = <<>> THEN Len(plan.events_to_update)
                     ELSE Len(plan.new_events) + Len(plan.events_to_update),
             listed |-> FALSE]

SortKeyDateOnly(e) == <<IF e.ann # {} THEN SetMax(e.ann) ELSE 99991231, 0>>

\* lines 698-709: sort_key, the priority in tenths
SortKey(e) ==
    <<IF e.ann # {} THEN SetMax(e.ann) ELSE 99991231,
      IF e.event_pk = 2
      THEN (IF e.details # <<>> /\ Get(e.details, "estimate") = {} THEN 21 ELSE 22)
      ELSE e.event_pk * 10>>

SortKeyLE(a, b) ==
    SortKey(a)[1] < SortKey(b)[1]
    \/ (SortKey(a)[1] = SortKey(b)[1] /\ SortKey(a)[2] <= SortKey(b)[2])

(***************************************************************************)
(* Inputs and history of the indicator specifications                      *)
(***************************************************************************)
UpstreamDates == FirstDay..(FirstDay + MaxDays - 1)

UpstreamEntries == {Entry(d, v) : d \in UpstreamDates, v \in ValueStrings}

\* upstream payloads: newest first, one entry per date
Payloads ==
    {p \in SeqsUpTo(UpstreamEntries, MaxEntries) :
        \A i \in 1..(Len(p) - 1) : p[i].date > p[i + 1].date}

\* the upstream value of each date after the watermark that has a convertible
\* value, as float() reads it
UpstreamValues(data_list, w) ==
    LET good == {i \in DOMAIN data_list :
                    data_list[i].date > w /\ data_list[i].value \in DOMAIN FloatOf}
    IN [d \in {data_list[i].date : i \in good} |->
           FloatOf[data_list[CHOOSE i \in good : data_list[i].date = d
                     /\ \A j \in good : data_list[j].date = d => i <= j].value]]

NoOp == [op |-> "none", col |-> "", prev_date |-> 0, watermark |-> {},
         rows_before |-> {}, inserts |-> <<>>, updates |-> <<>>,
         upstream |-> <<>>, old |-> 0]

\* one pair of process_economic_indicators whose fetch returned the list data_list
IngestStep(suffix, data_list) ==
    LET res == IngestPair(tbl, interval, suffix, data_list, shown_warnings)
    IN /\ nops < MaxOps
       /\ nops' = nops + 1
       /\ tbl' = res.tbl
       /\ ctbl' = IF res.commit THEN res.tbl ELSE ctbl
       /\ last' = [op |-> "ingest", col |-> suffix, prev_date |-> res.prev_date,
                   watermark |-> Watermark(tbl, suffix),
                   rows_before |-> Dates(tbl),
                   inserts |-> res.inserts, updates |-> res.updates,
                   upstream |-> UpstreamValues(data_list, res.prev_date),
                   old |-> Cardinality({i \in DOMAIN data_list :
                                           data_list[i].date <= res.prev_date})]
       /\ shown_warnings' = res.warned
       /\ printed' = printed \o res.printed
       /\ UNCHANGED interval

\* resolve_EIE lines 867-869: the fill of one column, then commit
GapFill(suffix) ==
    LET res == forward_backward_fill_indicator(tbl, suffix)
    IN /\ nops < MaxOps
       /\ nops' = nops + 1
       /\ tbl' = res.tbl
       /\ ctbl' = res.tbl
       /\ last' = [NoOp EXCEPT !.op = "fill", !.col = suffix, !.updates = res.updates,
                               !.watermark = Watermark(tbl, suffix),
                               !.rows_before = Dates(tbl)]
       /\ passed' = {}
       /\ rerun' = FALSE
       /\ UNCHANGED <<interval, upstream, shown_warnings, printed, evVars, runVars, pureVars, concVars>>

(***************************************************************************)
(* Specification SpecInd: ingestion passes over any fetched series and     *)
(* gap-fill passes, from the empty table                                   *)
(***************************************************************************)
NoUpstream == [s \in Suffixes |-> <<>>]

NoCall == [op |-> "none", before |-> {}, events |-> <<>>, plan |-> EmptyPlan, ret |-> 0]

\* the event tables are not touched
EvIdle == ev = {} /\ cev = {} /\ elast = NoCall /\ ecalls = 0

NoResult == [kind |-> "none", success |-> FALSE, error |-> "", after |-> "",
             indicators_inserted |-> 0, events_inserted |-> 0]

\* no pure function is under study
PureIdle == fname = "" /\ fin = <<>> /\ fout = <<>>

\* resolve_EIE is not running
RunIdle ==
    /\ pc = "idle" /\ attempts = 0 /\ sleeps = 0 /\ step = 0 /\ result = NoResult
    /\ txFailed = FALSE /\ warnings = {} /\ skipped = {} /\ ingested = {} /\ others = ""
    /\ total_indicators_inserted = 0 /\ total_events_inserted = 0

InitInd ==
    /\ EvIdle
    /\ PureIdle
    /\ RunIdle
    /\ interval \in Intervals
    /\ tbl = {}
    /\ ctbl = {}
    /\ last = NoOp
    /\ nops = 0
    /\ upstream = NoUpstream
    /\ passed = {}
    /\ rerun = FALSE /\ shown_warnings = {} /\ printed = <<>> /\ runs = <<>>

Ingest(suffix, data_list) ==
    /\ IngestStep(suffix, data_list)
    /\ UNCHANGED <<upstream, passed, rerun, evVars, runVars, pureVars, concVars>>

NextInd ==
    \/ \E suffix \in Suffixes, data_list \in Payloads : Ingest(suffix, data_list)
    \/ \E suffix \in Suffixes : GapFill(suffix)

SpecInd == InitInd /\ [][NextInd]_vars

(***************************************************************************)
(* Specification SpecIdem: repeated runs against an upstream that does not *)
(* change                                                                  *)
(***************************************************************************)
InitIdem ==
    /\ EvIdle
    /\ PureIdle
    /\ RunIdle
    /\ interval \in Intervals
    /\ tbl = {}
    /\ ctbl = {}
    /\ last = NoOp
    /\ nops = 0
    /\ upstream \in [Suffixes -> Payloads]
    /\ passed = {}
    /\ rerun = FALSE /\ shown_warnings = {} /\ printed = <<>> /\ runs = <<>>

\* the pass of one pair over the series upstream serves
IngestUpstream(suffix) ==
    /\ IngestStep(suffix, upstream[suffix])
    /\ passed' = passed \cup {suffix}
    /\ rerun' = (suffix \in passed)
    /\ UNCHANGED <<upstream, evVars, runVars, pureVars, concVars>>

NextIdem ==
    \/ \E suffix \in Suffixes : IngestUpstream(suffix)
    \/ \E suffix \in Suffixes : GapFill(suffix)

SpecIdem == InitIdem /\ [][NextIdem]_vars

(***************************************************************************)
(* Specification SpecFill: the gap filler on any table with one row per    *)
(* date                                                                    *)
(***************************************************************************)
CellValues == {{}, {525}, {550}}

FillTables ==
    UNION {{{[pk |-> d, id |-> d, date |-> FirstDay + d, cells |-> c[d]] : d \in 1..n} :
               c \in [1..n -> [Suffixes -> CellValues]]} : n \in 0..MaxFillRows}

InitFill ==
    /\ EvIdle
    /\ PureIdle
    /\ RunIdle
    /\ interval = "daily"
    /\ tbl \in FillTables
    /\ ctbl = tbl
    /\ last = NoOp
    /\ nops = 0
    /\ upstream = NoUpstream
    /\ passed = {}
    /\ rerun = FALSE /\ shown_warnings = {} /\ printed = <<>> /\ runs = <<>>

NextFill == \E suffix \in Suffixes : GapFill(suffix)

SpecFill == InitFill /\ [][NextFill]_vars

(***************************************************************************)
(* SpecEv: batch_insert_events called on one asset's event table with the  *)
(* event lists process_events can build.                                   *)
(***************************************************************************)
EvDays == 1..MaxEvDay

Estimates == {{}, {"1.5"}}

\* process_events lines 567-578: historical earnings, reported on or after the
\* fiscal date
EarningsEvents ==
    {[event_pk |-> 2, ann |-> {f}, start |-> {r},
      details |-> [quarter |-> {QuarterOf(f)}, year |-> {YearOf(f)}]]
        : <<f, r>> \in {p \in EvDays \X EvDays : p[2] >= p[1]}}

\* process_events lines 617-629: calendar entries; the fiscal date is optional,
\* and so is the estimate of an entry without one
CalendarEvents ==
    {[event_pk |-> 2, ann |-> {}, start |-> {r},
      details |-> [quarter |-> {QuarterOf(r)}, year |-> {YearOf(r)}, estimate |-> e]]
        : <<r, e>> \in EvDays \X Estimates}
    \cup
    {[event_pk |-> 2, ann |-> {p[1]}, start |-> {p[2]},
      details |-> [quarter |-> {QuarterOf(p[1])}, year |-> {YearOf(p[1])},
                   estimate |-> {"1.5"}]]
        : p \in {x \in EvDays \X EvDays : x[2] >= x[1]}}

\* process_events lines 681-687: federal funds rate events
RateEvents ==
    {[event_pk |-> 4, ann |-> {d}, start |-> {d}, details |-> [fvalue |-> {v}]]
        : <<d, v>> \in (1..MaxRateDay) \X {"5.5", "5.25"}}

IncomingEvents == EarningsEvents \cup CalendarEvents \cup RateEvents

\* the sorted list handed to batch_insert_events (line 711); the rate events
\* come from a set of (date, value) pairs (line 527), so no two are equal
EventLists ==
    {s \in SeqsUpTo(IncomingEvents, MaxBatch) :
        /\ \A i \in 1..(Len(s) - 1) : SortKeyLE(s[i], s[i + 1])
        /\ \A i, j \in DOMAIN s : (i < j /\ s[i].event_pk = 4) => s[i] # s[j]}

HasDuplicateKeys(rows) == \E r1, r2 \in rows : r1 # r2 /\ RowKey(r1) = RowKey(r2)

\* which of several stored rows with one key the matching loop meets first
FirstChoices(rows) == IF HasDuplicateKeys(rows) THEN {"low", "high"} ELSE {"low"}

InitEv ==
    /\ interval = "daily" /\ tbl = {} /\ ctbl = {} /\ last = NoOp /\ nops = 0
    /\ upstream = NoUpstream /\ passed = {} /\ rerun = FALSE /\ shown_warnings = {} /\ printed = <<>> /\ runs = <<>>
    /\ EvIdle
    /\ PureIdle
    /\ RunIdle

\* one call of batch_insert_events followed by the commit of resolve_EIE
BatchInsert(events, first) ==
    /\ ecalls < MaxCalls
    /\ LET r == batch_insert_events(ev, events, first)
       IN /\ ev' = r.tbl
          /\ cev' = r.tbl
          /\ elast' = [op |-> "batch", before |-> ev, events |-> events,
                       plan |-> r.plan, ret |-> r.ret]
    /\ ecalls' = ecalls + 1
    /\ UNCHANGED <<indVars, runVars, pureVars, concVars>>

NextEv ==
    /\ ecalls < MaxCalls
    /\ \E events \in EventLists : \E first \in FirstChoices(ev) : BatchInsert(events, first)

SpecEv == InitEv /\ [][NextEv]_vars

(***************************************************************************)
(* SpecRun: one call of resolve_EIE on one interval table and one asset,   *)
(* every fetch and every database statement free to fail.  A failed        *)
(* statement aborts the transaction: the statements after it fail too and  *)
(* a commit of the aborted transaction rolls it back.                      *)
(***************************************************************************)
\* resolve_EIE lines 913-918
Completed ==
    [kind |-> "returned", success |-> TRUE, error |-> "", after |-> "close",
     indicators_inserted |-> total_indicators_inserted,
     events_inserted |-> total_events_inserted]

\* resolve_EIE line 799
ConnectionFailed ==
    [NoResult EXCEPT !.kind = "returned", !.error = "Database connection failed",
                     !.after = "connect"]

Propagated(at) == [NoResult EXCEPT !.kind = "raised", !.after = at]

\* resolve_EIE lines 928-942: the handler around the whole body
OuterExcept(at) ==
    [NoResult EXCEPT !.kind = "returned", !.error = "exception", !.after = at]

\* what the fetcher of a pair can hand back besides a series
FetchFailures == {"raises", "no data list"}

RunPayloads ==
    {<<>>, <<Entry(FirstDay, "5.5")>>, <<Entry(FirstDay + 1, "5.25"), Entry(FirstDay, "5.5")>>}

\* the statements of batch_insert_events, lines 298, 409, 415, 421, 443
Statements == {"select", "delete", "update", "max", "copy"}

\* the statements a call with this plan executes
Executed(plan) ==
    {"select"}
    \cup (IF plan.expected_to_delete # {} THEN {"delete"} ELSE {})
    \cup (IF plan.events_to_update # <<>> THEN {"update"} ELSE {})
    \cup (IF plan.new_events # <<>> THEN {"max", "copy"} ELSE {})

\* the rows the cursor sees when the statement at point fails; a failed DELETE
\* is swallowed at line 410 and the next statement fails in its place
RowsAtFailure(rows, plan, point) ==
    IF point \in {"select", "delete"} THEN rows
    ELSE IF point = "update" THEN ApplyDeletes(rows, plan.expected_to_delete)
    ELSE ApplyNotes(ApplyDeletes(rows, plan.expected_to_delete), plan.events_to_update, 1)

Placeholder(d) ==
    [event_pk |-> 2, ann |-> {}, start |-> {d},
     details |-> [quarter |-> {QuarterOf(d)}, year |-> {YearOf(d)}, estimate |-> {"1.5"}]]

\* the asset's table before the run: empty, or holding a placeholder stored by
\* an earlier run
RunTables == {{}, batch_insert_events({}, <<Placeholder(2)>>, "low").tbl}

RunEventLists == {s \in EventLists : Len(s) <= 1}

\* the interval's table before the run: empty, or the row an earlier run left,
\* with a value in every column
RunSeries(list_) ==
    {{}, {[pk |-> 1, id |-> 1, date |-> FirstDay,
           cells |-> [s \in Suffixes |-> ConvertValue(ColumnName(list_, s), "5.5")]]}}

InitRun ==
    /\ interval \in Intervals
    /\ tbl \in RunSeries(interval) /\ ctbl = tbl /\ last = NoOp /\ nops = 0
    /\ upstream = NoUpstream /\ passed = {} /\ rerun = FALSE /\ shown_warnings = {} /\ printed = <<>> /\ runs = <<>>
    /\ ev \in RunTables /\ cev = ev /\ elast = NoCall /\ ecalls = 0
    /\ PureIdle
    /\ pc = "connect" /\ attempts = 0 /\ sleeps = 0 /\ step = 0 /\ result = NoResult
    /\ txFailed = FALSE /\ warnings = {} /\ skipped = {} /\ ingested = {} /\ others = ""
    /\ total_indicators_inserted = 0 /\ total_events_inserted = 0

LastAttemptNever(n) == FALSE

\* line 784: attempt n (counted from 1) is the last of range(retries)
LastAttempt(n) == n = MaxRetries

\* connect_with_retries, lines 782-799: one attempt; a failed attempt that is
\* not the last is followed by the delay (lines 792-793)
Connect(ok) ==
    /\ pc = "connect"
    /\ attempts' = attempts + 1
    /\ IF ok THEN pc' = "indicators" /\ step' = 1 /\ UNCHANGED <<result, sleeps>>
       ELSE IF LastAttempt(attempts + 1)
       THEN pc' = "done" /\ result' = ConnectionFailed /\ UNCHANGED <<step, sleeps>>
       ELSE sleeps' = sleeps + 1 /\ UNCHANGED <<pc, step, result>>
    /\ UNCHANGED <<indVars, evVars, pureVars, concVars, others, txFailed, warnings, skipped, ingested,
                   total_indicators_inserted, total_events_inserted>>

\* where the loops over the pairs go after position step
AfterPair(next) ==
    IF step < Len(items) THEN pc' = pc /\ step' = step + 1
    ELSE pc' = next /\ step' = 1

\* process_economic_indicators lines 130-267 for the pair at position step
FetchAndIngest(data_list) ==
    /\ pc = "indicators"
    /\ IngestStep(items[step], data_list)
    /\ passed' = passed \cup {items[step]}
    /\ ingested' = IF IngestPair(tbl, interval, items[step], data_list, shown_warnings).already
                   THEN ingested ELSE ingested \cup {items[step]}
    /\ total_indicators_inserted' = total_indicators_inserted + Len(last'.inserts)
    /\ AfterPair("fill")
    /\ UNCHANGED <<upstream, rerun, evVars, pureVars, concVars, others, attempts, sleeps, result, txFailed, warnings,
                   skipped, total_events_inserted>>

\* lines 161-178 raise (the fetch at 162, or the filter at 178 on a payload
\* with no list of entries); resolve_EIE lines 839-842 end the phase
FetchFails(failure) ==
    /\ pc = "indicators"
    /\ skipped' = skipped \cup {items[step]}
    /\ total_indicators_inserted' = 0
    /\ pc' = "fill" /\ step' = 1
    /\ UNCHANGED <<indVars, evVars, pureVars, concVars, others, ingested, attempts, sleeps, result, txFailed, warnings,
                   total_events_inserted>>

\* lines 870-875: what the cursor sees after a fill that raised, at the latest
\* in the commit of line 869: the warning is printed and the transaction is
\* rolled back
FailedFillKept(t, c, suffix) == forward_backward_fill_indicator(t, suffix).tbl

FailedFillRolledBack(t, c, suffix) == c

FillWarning(column_name) == <<"Forward/backward fill failed", column_name>>

\* resolve_EIE lines 862-875: fill one column and commit, or roll back
RunFill(ok) ==
    /\ pc = "fill"
    /\ IF ok THEN /\ tbl' = forward_backward_fill_indicator(tbl, items[step]).tbl
                  /\ ctbl' = tbl'
                  /\ UNCHANGED printed
       ELSE /\ tbl' = FailedFillRolledBack(tbl, ctbl, items[step])
            /\ printed' = Append(printed, FillWarning(ColumnName(interval, items[step])))
            /\ UNCHANGED ctbl
    /\ AfterPair("events")
    /\ UNCHANGED <<interval, last, nops, upstream, passed, rerun, shown_warnings, evVars, pureVars, concVars, others, attempts, sleeps,
                   result, txFailed, warnings, skipped, ingested, total_indicators_inserted,
                   total_events_inserted>>

\* process_events lines 457-470: the queries that list the assets; a failure
\* leaves process_events and resolve_EIE line 888 for the outer handler
ListAssets(ok) ==
    /\ pc = "events"
    /\ IF ok THEN pc' = "asset" /\ UNCHANGED result
       ELSE pc' = "done" /\ result' = OuterExcept("events")
    /\ UNCHANGED <<indVars, evVars, pureVars, concVars, others, attempts, sleeps, step, txFailed, warnings, skipped, ingested,
                   total_indicators_inserted, total_events_inserted>>

\* lines 532-537: the table of the asset cannot be read
AssetSkipped ==
    /\ pc = "asset"
    /\ txFailed' = TRUE
    /\ pc' = "others"
    /\ UNCHANGED <<indVars, evVars, pureVars, concVars, others, attempts, sleeps, step, result, warnings, skipped, ingested,
                   total_indicators_inserted, total_events_inserted>>

\* lines 539-723: the events of the asset are reconciled
AssetBatch(events, first) ==
    /\ pc = "asset"
    /\ ~txFailed
    /\ LET r == batch_insert_events(ev, events, first)
       IN /\ ev' = r.tbl
          /\ elast' = [op |-> "batch", before |-> ev, events |-> events,
                       plan |-> r.plan, ret |-> r.ret]
          /\ total_events_inserted' = total_events_inserted + r.ret
    /\ ecalls' = ecalls + 1
    /\ pc' = "others"
    /\ UNCHANGED <<indVars, cev, pureVars, concVars, others, attempts, sleeps, step, result, txFailed, warnings, skipped, ingested,
                   total_indicators_inserted>>

\* lines 714-720: a statement of batch_insert_events fails
AssetBatchFails(events, first, point) ==
    /\ pc = "asset"
    /\ ~txFailed
    /\ events # <<>>
    /\ LET plan == BuildPlan(ev, events, 1, first, EmptyPlan)
       IN /\ point \in Executed(IF point = "select" THEN EmptyPlan ELSE plan)
          /\ ev' = RowsAtFailure(ev, plan, point)
          /\ elast' = [op |-> "failed", before |-> ev, events |-> events,
                       plan |-> plan, ret |-> 0]
    /\ ecalls' = ecalls + 1
    /\ txFailed' = TRUE
    /\ warnings' = warnings \cup {"Failed to insert events"}
    /\ pc' = "others"
    /\ UNCHANGED <<indVars, cev, pureVars, concVars, others, attempts, sleeps, step, result, skipped, ingested,
                   total_indicators_inserted, total_events_inserted>>

\* lines 530-727 for the assets after this one: their statements run in the
\* same transaction; once it is aborted the table check of line 533 fails for
\* each of them and line 537 moves on
OtherAssets(ok) ==
    /\ pc = "others"
    /\ others' = IF txFailed THEN "skipped" ELSE IF ok THEN "processed" ELSE "failed"
    /\ txFailed' = (txFailed \/ ~ok)
    /\ pc' = "commit"
    /\ UNCHANGED <<indVars, evVars, pureVars, concVars, attempts, sleeps, step, result, warnings,
                   skipped, ingested, total_indicators_inserted, total_events_inserted>>

\* line 898: the message printed when the commit raises
CommitWarning == <<"Failed to commit transactions", "">>

\* resolve_EIE lines 893-902: the one commit of the event phase
Commit(ok) ==
    /\ pc = "commit"
    /\ IF ok /\ ~txFailed
       THEN cev' = ev /\ ctbl' = tbl /\ UNCHANGED <<ev, tbl>>
       ELSE ev' = cev /\ tbl' = ctbl /\ UNCHANGED <<cev, ctbl>>
    /\ printed' = IF ok THEN printed ELSE Append(printed, CommitWarning)
    /\ txFailed' = FALSE
    /\ pc' = "close"
    /\ UNCHANGED <<interval, last, nops, upstream, passed, rerun, shown_warnings, elast, ecalls,
                   pureVars, concVars, others, attempts, sleeps, step, result, warnings, skipped, ingested,
                   total_indicators_inserted, total_events_inserted>>

\* resolve_EIE lines 905-926: close, then the result
Close(ok) ==
    /\ pc = "close"
    /\ result' = Completed
    /\ pc' = "done"
    /\ UNCHANGED <<indVars, evVars, pureVars, concVars, others, attempts, sleeps, step, txFailed, warnings, skipped, ingested,
                   total_indicators_inserted, total_events_inserted>>

NextRun ==
    \/ \E ok \in BOOLEAN : Connect(ok)
    \/ \E data_list \in RunPayloads : FetchAndIngest(data_list)
    \/ \E failure \in FetchFailures : FetchFails(failure)
    \/ \E ok \in BOOLEAN : RunFill(ok)
    \/ \E ok \in BOOLEAN : ListAssets(ok)
    \/ AssetSkipped
    \/ \E events \in RunEventLists : \E first \in FirstChoices(ev) : AssetBatch(events, first)
    \/ \E events \in RunEventLists : \E first \in FirstChoices(ev) :
           \E point \in Statements : AssetBatchFails(events, first, point)
    \/ \E ok \in BOOLEAN : OtherAssets(ok)
    \/ \E ok \in BOOLEAN : Commit(ok)
    \/ \E ok \in BOOLEAN : Close(ok)

SpecRun == InitRun /\ [][NextRun]_vars

\* the same call with one series and at most one incoming event
NextRunFew ==
    \/ \E ok \in BOOLEAN : Connect(ok)
    \/ FetchAndIngest(<<Entry(FirstDay, "5.5")>>)
    \/ \E failure \in FetchFailures : FetchFails(failure)
    \/ \E ok \in BOOLEAN : RunFill(ok)
    \/ \E ok \in BOOLEAN : ListAssets(ok)
    \/ AssetSkipped
    \/ \E events \in {<<>>, <<Placeholder(1)>>} : AssetBatch(events, "low")
    \/ \E point \in Statements : AssetBatchFails(<<Placeholder(1)>>, "low", point)
    \/ \E ok \in BOOLEAN : OtherAssets(ok)
    \/ \E ok \in BOOLEAN : Commit(ok)
    \/ \E ok \in BOOLEAN : Close(ok)

\* the call runs on: every loop of resolve_EIE is a for loop over a finite list
\* and nothing in it waits for another process
SpecRunFair == InitRun /\ [][NextRunFew]_vars /\ WF_vars(NextRunFew)

(***************************************************************************)
(* SpecTick: the asset list of process_events for any ticker filter handed *)
(* to resolve_EIE.                                                         *)
(***************************************************************************)
TickerStrings == {"AAPL", "aapl", "MSFT", ""}

\* str.upper()
Upper == [t \in TickerStrings |-> IF t = "aapl" THEN "AAPL" ELSE t]

\* the tickers_list argument: absent, a list, a string holding a JSON list, or
\* a string json.loads rejects
TickerFilters ==
    {[kind |-> "none", val |-> <<>>], [kind |-> "text", val |-> <<>>]}
    \cup {[kind |-> k, val |-> v] : k \in {"list", "json"},
                                    v \in SeqsUpTo(TickerStrings, MaxFilter)}

NoSymbols == [given |-> FALSE, val |-> <<>>]

\* the comprehension of line 815: the truthy entries, upper-cased, in order
RECURSIVE UpperEntries(_, _)
UpperEntries(parsed, i) ==
    IF i > Len(parsed) THEN <<>>
    ELSE IF parsed[i] # "" THEN <<Upper[parsed[i]]>> \o UpperEntries(parsed, i + 1)
    ELSE UpperEntries(parsed, i + 1)

\* resolve_EIE lines 805-816: only_symbols, None unless a list came through
OnlySymbols(tickers_list) ==
    IF tickers_list.kind = "none" THEN NoSymbols
    ELSE IF tickers_list.kind = "list" /\ tickers_list.val = <<>> THEN NoSymbols
    ELSE IF tickers_list.kind = "text" THEN NoSymbols
    ELSE [given |-> TRUE, val |-> UpperEntries(tickers_list.val, 1)]

\* process_events lines 458-470: the symbols to process, as a set
UsSymbols(schema_symbols, view_symbols, only_symbols) ==
    LET us_symbols == schema_symbols \cap {Upper[v] : v \in view_symbols}
    IN IF only_symbols.given /\ only_symbols.val # <<>>
       THEN {sym \in us_symbols : sym \in {Upper[o] : o \in Range(only_symbols.val)}}
       ELSE us_symbols

InitTick ==
    /\ interval = "daily" /\ tbl = {} /\ ctbl = {} /\ last = NoOp /\ nops = 0
    /\ upstream = NoUpstream /\ passed = {} /\ rerun = FALSE /\ shown_warnings = {} /\ printed = <<>> /\ runs = <<>>
    /\ EvIdle
    /\ RunIdle
    /\ fname = ""
    /\ fin \in [tickers_list : TickerFilters,
                schema_symbols : SUBSET {"AAPL", "MSFT"},
                view_symbols : SUBSET {"AAPL", "aapl", "MSFT"}]
    /\ fout = <<>>

ResolveSymbols ==
    /\ fname = ""
    /\ fname' = "us_symbols"
    /\ fout' = UsSymbols(fin.schema_symbols, fin.view_symbols,
                         OnlySymbols(fin.tickers_list))
    /\ UNCHANGED <<fin, indVars, evVars, runVars, concVars>>

NextTick == ResolveSymbols

SpecTick == InitTick /\ [][NextTick]_vars

(***************************************************************************)
(* SpecKinds: the loop of process_events over the event kinds of one asset *)
(* (lines 539-723), every response free to be bad and every payload free   *)
(* to hold a malformed entry, followed by the sort and the reconciliation  *)
(* against an empty table.                                                 *)
(***************************************************************************)
\* Decimal.quantize(Decimal(1)): a / b rounded to an integer, halves to even
RoundHalfEven(a, b) ==
    LET q == a \div b
        r == a % b
    IN IF 2 * r < b THEN q
       ELSE IF 2 * r > b THEN q + 1
       ELSE IF q % 2 = 0 THEN q ELSE q + 1

\* the factor an upstream split entry carries: missing, '', a text that is no
\* number, or the number num / den
Factors ==
    {[kind |-> k, num |-> 0, den |-> 1] : k \in {"none", "empty", "text"}}
    \cup {[kind |-> "num", num |-> n, den |-> d] : n \in 0..MaxFactor, d \in 1..MaxFactor}

SplitRatioForward(factor) ==
    IF factor.kind # "num" \/ factor.num = factor.den \/ factor.num = 0 THEN {}
    ELSE {ToString(RoundHalfEven(factor.num, factor.den)) \o "-for-1"}

\* compute_split_ratio_str, lines 64-77: the ratio text as a nullable
compute_split_ratio_str(factor) ==
    IF factor.kind \in {"none", "empty"} THEN {}
    ELSE IF factor.kind = "text" THEN {}
    ELSE IF factor.num = factor.den THEN {}
    ELSE IF factor.num > factor.den
         THEN {ToString(RoundHalfEven(factor.num, factor.den)) \o "-for-1"}
    ELSE IF factor.num = 0 THEN {}
    ELSE {"Reverse " \o ToString(RoundHalfEven(factor.den, factor.num)) \o "-for-1"}

kinds == <<"earnings", "earnings_calendar", "dividends", "splits">>

\* process_events lines 651-660
DividendEvent(ex, pay) ==
    [event_pk |-> 1, ann |-> {ex}, start |-> {pay}, details |-> [dividend_amount |-> {"0.24"}]]

\* process_events lines 664-674
SplitEvent(eff, factor) ==
    [event_pk |-> 3, ann |-> {eff}, start |-> {eff},
     details |-> [split_ratio |-> compute_split_ratio_str(factor)]]

\* the events the well-formed entries of one kind's payload yield
KindEvents ==
    [earnings |-> {e \in EarningsEvents : e.ann = {1}},
     earnings_calendar |-> {Placeholder(d) : d \in 1..2},
     dividends |-> {DividendEvent(1, 1), DividendEvent(1, 2)},
     splits |-> {SplitEvent(d, [kind |-> "num", num |-> 2, den |-> 1]) : d \in 1..2}]

\* what one fetch yields: a bad response (lines 550-566), or a payload whose
\* entries give the events, a malformed entry raising after them (line 676)
Outcomes(kind) ==
    {"status", "no data", "error", "exception", "ok"}
    \cup (IF kind = "earnings" THEN {"mismatch"} ELSE {})

Responses(kind) ==
    {[outcome |-> o, events |-> <<>>] : o \in Outcomes(kind) \ {"ok", "exception"}}
    \cup {[outcome |-> o, events |-> es] :
             o \in {"ok", "exception"}, es \in SeqsUpTo(KindEvents[kind], MaxKindEvents)}

StopAtFailedKind(i, resp) == IF resp.outcome = "ok" THEN i + 1 ELSE Len(kinds) + 1

\* lines 542-677: the kind fetched after kind i, whatever its response was
FollowingKind(i, resp) == i + 1

\* lines 542-677 from kind i on: the events appended, the warnings, the kinds
\* fetched
RECURSIVE FetchKinds(_, _, _)
FetchKinds(resps, i, acc) ==
    IF i > Len(kinds) THEN acc
    ELSE LET resp == resps[kinds[i]]
             next == [all_events |-> acc.all_events \o resp.events,
                      warnings |-> acc.warnings \cup
                          (IF resp.outcome = "ok" THEN {} ELSE {<<kinds[i], resp.outcome>>}),
                      fetched |-> acc.fetched \cup {kinds[i]}]
         IN FetchKinds(resps, FollowingKind(i, resp), next)

\* lines 680-687
RateEventsOf(federal_funds_rates) ==
    [k \in DOMAIN federal_funds_rates |->
        [event_pk |-> 4, ann |-> {federal_funds_rates[k][1]},
         start |-> {federal_funds_rates[k][1]},
         details |-> [fvalue |-> {federal_funds_rates[k][2]}]]]

\* list.sort(key=sort_key), line 711: stable, so an event goes behind the
\* events that do not sort after it
RECURSIVE InsertSorted(_, _)
InsertSorted(s, e) ==
    IF s = <<>> THEN <<e>>
    ELSE IF SortKeyLE(s[Len(s)], e) THEN Append(s, e)
    ELSE Append(InsertSorted(SubSeq(s, 1, Len(s) - 1), e), s[Len(s)])

RECURSIVE SortEvents(_)
SortEvents(s) ==
    IF s = <<>> THEN <<>>
    ELSE InsertSorted(SortEvents(SubSeq(s, 1, Len(s) - 1)), s[Len(s)])

\* lines 539-727 for one asset whose event table holds rows
AssetEvents(rows, resps, federal_funds_rates) ==
    LET got == FetchKinds(resps, 1, [all_events |-> <<>>, warnings |-> {}, fetched |-> {}])
        all_events == SortEvents(got.all_events \o RateEventsOf(federal_funds_rates))
        r == batch_insert_events(rows, all_events, "low")
    IN [all_events |-> all_events, warnings |-> got.warnings, fetched |-> got.fetched,
        stored |-> r.tbl, plan |-> r.plan, inserted |-> r.ret,
        assets_no_new_events |-> r.listed]

\* the asset's table before the run: empty, or what an earlier run with the
\* same responses stored
InitKinds ==
    /\ interval = "daily" /\ tbl = {} /\ ctbl = {} /\ last = NoOp /\ nops = 0
    /\ upstream = NoUpstream /\ passed = {} /\ rerun = FALSE /\ shown_warnings = {} /\ printed = <<>> /\ runs = <<>>
    /\ EvIdle
    /\ RunIdle
    /\ fname = ""
    /\ \E resps \in [earnings : Responses("earnings"),
                     earnings_calendar : Responses("earnings_calendar"),
                     dividends : Responses("dividends"),
                     splits : Responses("splits")],
          federal_funds_rates \in {<<>>, <<<<1, "5.5">>>>},
          again \in BOOLEAN :
          fin = [resps |-> resps, federal_funds_rates |-> federal_funds_rates,
                 rows |-> IF again THEN AssetEvents({}, resps, federal_funds_rates).stored
                          ELSE {}]
    /\ fout = <<>>

BuildAssetEvents ==
    /\ fname = ""
    /\ fname' = "asset_events"
    /\ fout' = AssetEvents(fin.rows, fin.resps, fin.federal_funds_rates)
    /\ UNCHANGED <<fin, indVars, evVars, runVars, concVars>>

NextKinds == BuildAssetEvents

SpecKinds == InitKinds /\ [][NextKinds]_vars

(***************************************************************************)
(* SpecSort: the sort of process_events (lines 696-711) on any short list  *)
(* of incoming events of every kind, dated or not.                         *)
(***************************************************************************)
SortableEvents ==
    {DividendEvent(1, 1), SplitEvent(1, [kind |-> "num", num |-> 2, den |-> 1]),
     Placeholder(1)}
    \cup {e \in EarningsEvents : e.ann = e.start /\ e.ann \subseteq 1..2}
    \cup {[event_pk |-> 2, ann |-> a, start |-> {2},
           details |-> [quarter |-> {"Q1"}, year |-> {2024}, estimate |-> est]]
             : a \in {{}, {1}}, est \in Estimates}
    \cup Range(RateEventsOf(<<<<1, "5.5">>>>))

InitSort ==
    /\ interval = "daily" /\ tbl = {} /\ ctbl = {} /\ last = NoOp /\ nops = 0
    /\ upstream = NoUpstream /\ passed = {} /\ rerun = FALSE /\ shown_warnings = {} /\ printed = <<>> /\ runs = <<>>
    /\ EvIdle
    /\ RunIdle
    /\ fname = ""
    /\ fin \in SeqsUpTo(SortableEvents, MaxSort)
    /\ fout = <<>>

Sort ==
    /\ fname = ""
    /\ fname' = "sort"
    /\ fout' = SortEvents(fin)
    /\ UNCHANGED <<fin, indVars, evVars, runVars, concVars>>

NextSort == Sort

SpecSort == InitSort /\ [][NextSort]_vars

(***************************************************************************)
(* SpecSplit: compute_split_ratio_str on every factor                      *)
(***************************************************************************)
InitSplit ==
    /\ interval = "daily" /\ tbl = {} /\ ctbl = {} /\ last = NoOp /\ nops = 0
    /\ upstream = NoUpstream /\ passed = {} /\ rerun = FALSE /\ shown_warnings = {} /\ printed = <<>> /\ runs = <<>>
    /\ EvIdle
    /\ RunIdle
    /\ fname = ""
    /\ fin \in Factors
    /\ fout = <<>>

SplitRatio ==
    /\ fname = ""
    /\ fname' = "compute_split_ratio_str"
    /\ fout' = compute_split_ratio_str(fin)
    /\ UNCHANGED <<fin, indVars, evVars, runVars, concVars>>

NextSplit == SplitRatio

SpecSplit == InitSplit /\ [][NextSplit]_vars

(***************************************************************************)
(* SpecRate: the shared rate series of process_events (lines 476-527) on a *)
(* fetched series of monthly records, some months possibly listed twice    *)
(* with different values and some without a usable value.                  *)
(***************************************************************************)
\* lines 487-493: the records with a date and a usable value, as (date, value)
ParsedRecords(ff_data) ==
    {<<SetMax(rec.date), rec.value>> :
        rec \in {x \in ff_data : x.date # {} /\ x.value \notin {"", "."}}}

\* line 523: the orders sorted(set, key=date, reverse=True) can give; entries
\* of one date come in the order the set yields them
RECURSIVE DescendingOrders(_)
DescendingOrders(parsed) ==
    IF parsed = {} THEN {<<>>}
    ELSE LET latest == {x \in parsed : \A y \in parsed : y[1] <= x[1]}
         IN UNION {{<<x>> \o t : t \in DescendingOrders(parsed \ {x})} : x \in latest}

\* line 524: parsed[:12]
Recent(parsed) == SubSeq(parsed, 1, IF Len(parsed) < RateKeep THEN Len(parsed) ELSE RateKeep)

\* the fetched series: a record per month of `dated', a second record with
\* another value for the months of `revised', a record without a value for
\* the months of `blank'
FetchedSeries(dated, revised, blank) ==
    {[date |-> {d}, value |-> "5.5"] : d \in dated}
    \cup {[date |-> {d}, value |-> "5.25"] : d \in revised}
    \cup {[date |-> {d}, value |-> "."] : d \in blank}

InitRate ==
    /\ interval = "daily" /\ tbl = {} /\ ctbl = {} /\ last = NoOp /\ nops = 0
    /\ upstream = NoUpstream /\ passed = {} /\ rerun = FALSE /\ shown_warnings = {} /\ printed = <<>> /\ runs = <<>>
    /\ EvIdle
    /\ RunIdle
    /\ fname = ""
    /\ \E dated \in SUBSET (1..MaxSeriesDay), revised \in SUBSET {1, MaxSeriesDay},
          blank \in SUBSET {2} :
          fin = FetchedSeries(dated, revised, blank)
    /\ fout = <<>>

FetchRates ==
    /\ fname = ""
    /\ fname' = "federal_funds_rates"
    /\ \E parsed \in DescendingOrders(ParsedRecords(fin)) : fout' = Recent(parsed)
    /\ UNCHANGED <<fin, indVars, evVars, runVars, concVars>>

NextRate == FetchRates

SpecRate == InitRate /\ [][NextRate]_vars

(***************************************************************************)
(* SpecConc: two runs of the pipeline on one store, each with its own      *)
(* connection (autocommit off, so a run sees what is committed and what it *)
(* wrote itself).  A run ingests one pair and reconciles one asset; its    *)
(* statements interleave with the other run's.  The store has no lock and  *)
(* accepts every row.                                                      *)
(***************************************************************************)
Runs == 1..2

ConcEventLists == {<<Placeholder(d)>> : d \in 1..2}

InitConc ==
    /\ interval \in Intervals
    /\ tbl = {} /\ ctbl = {} /\ last = NoOp /\ nops = 0
    /\ upstream = NoUpstream /\ passed = {} /\ rerun = FALSE
    /\ shown_warnings = {} /\ printed = <<>>
    /\ EvIdle
    /\ PureIdle
    /\ RunIdle
    /\ runs \in [Runs -> [pc : {"read"}, suffix : Suffixes, data_list : RunPayloads,
                          events : ConcEventLists, seen : {{}}, eseen : {{}},
                          emax : {{}}, stale : {FALSE}, estale : {FALSE}]]

\* lines 151-158 and 231-234: the run reads the watermark, the maximum
\* identifier and the existing dates of its pair
ConcRead(r) ==
    /\ runs[r].pc = "read"
    /\ runs' = [runs EXCEPT ![r].pc = "write", ![r].seen = ctbl]
    /\ UNCHANGED <<indVars, evVars, runVars, pureVars>>

\* lines 250-267: the run writes what it planned from what it read, and commits
ConcWrite(r) ==
    /\ runs[r].pc = "write"
    /\ LET res == IngestPair(runs[r].seen, interval, runs[r].suffix, runs[r].data_list, {})
       IN /\ ctbl' = ApplyUpdates(ctbl, res.updates)
                         \cup InsertedRows(ctbl, res.inserts, runs[r].suffix)
          /\ tbl' = ctbl'
    /\ runs' = [runs EXCEPT ![r].pc = "select", ![r].stale = (runs[r].seen # ctbl)]
    /\ UNCHANGED <<interval, last, nops, upstream, passed, rerun, shown_warnings, printed,
                   evVars, runVars, pureVars>>

\* line 298: the run reads the asset's stored events
ConcSelect(r) ==
    /\ runs[r].pc = "select"
    /\ runs' = [runs EXCEPT ![r].pc = "max", ![r].eseen = cev]
    /\ UNCHANGED <<indVars, evVars, runVars, pureVars>>

\* lines 421-422: the run reads the maximum key and identifier
ConcMax(r) ==
    /\ runs[r].pc = "max"
    /\ runs' = [runs EXCEPT ![r].pc = "copy", ![r].emax = cev]
    /\ UNCHANGED <<indVars, evVars, runVars, pureVars>>

\* lines 406-415, 424-443 and resolve_EIE line 895: the run applies the plan it
\* built from the rows it read, with the keys it computed, and commits
ConcCopy(r) ==
    /\ runs[r].pc = "copy"
    /\ LET plan == BuildPlan(runs[r].eseen, runs[r].events, 1, "low", EmptyPlan)
           kept == ApplyNotes(ApplyDeletes(cev, plan.expected_to_delete),
                              plan.events_to_update, 1)
       IN /\ cev' = kept \cup NewRows(runs[r].emax, plan.new_events)
          /\ ev' = cev'
    /\ runs' = [runs EXCEPT ![r].pc = "done",
                            ![r].estale = (runs[r].eseen # cev \/ runs[r].emax # cev)]
    /\ UNCHANGED <<indVars, elast, ecalls, runVars, pureVars>>

NextConc ==
    \E r \in Runs :
        \/ ConcRead(r)
        \/ ConcWrite(r)
        \/ ConcSelect(r)
        \/ ConcMax(r)
        \/ ConcCopy(r)

SpecConc == InitConc /\ [][NextConc]_vars

(***************************************************************************)
(* SpecRerun: batch_insert_events called run after run with the same       *)
(* incoming events, on a table that is empty or holds a placeholder        *)
(***************************************************************************)
InitRerun ==
    /\ interval = "daily" /\ tbl = {} /\ ctbl = {} /\ last = NoOp /\ nops = 0
    /\ upstream = NoUpstream /\ passed = {} /\ rerun = FALSE /\ shown_warnings = {} /\ printed = <<>> /\ runs = <<>>
    /\ ev \in RunTables /\ cev = ev /\ ecalls = 0
    /\ \E events \in EventLists : elast = [NoCall EXCEPT !.events = events]
    /\ PureIdle
    /\ RunIdle

\* a run: the call with the events the upstream still serves, and the commit
RunAgain == BatchInsert(elast.events, "low")

NextRerun == RunAgain

SpecRerun == InitRerun /\ [][NextRerun]_vars

(***************************************************************************)
(* Specification SpecRefill: gap-fill and further ingestion passes on the  *)
(* table an ingestion phase over both pairs has left                       *)
(***************************************************************************)
\* the table after process_economic_indicators ingested the series p1 and p2
IngestedBoth(list_, p1, p2) ==
    IngestPair(IngestPair({}, list_, items[1], p1, {}).tbl, list_, items[2], p2, {}).tbl

InitRefill ==
    /\ EvIdle
    /\ PureIdle
    /\ RunIdle
    /\ interval \in Intervals
    /\ \E p1, p2 \in RunPayloads : tbl = IngestedBoth(interval, p1, p2)
    /\ ctbl = tbl
    /\ last = NoOp
    /\ nops = 0
    /\ upstream \in [Suffixes -> RunPayloads]
    /\ passed = {}
    /\ rerun = FALSE /\ shown_warnings = {} /\ printed = <<>> /\ runs = <<>>

NextRefill ==
    \/ \E suffix \in Suffixes : GapFill(suffix)
    \/ \E suffix \in Suffixes : IngestUpstream(suffix)

SpecRefill == InitRefill /\ [][NextRefill]_vars

(***************************************************************************)
(* Claims about the indicator pipeline                                     *)
(***************************************************************************)
\* the (date, value) cells the last ingestion pass wrote into its column
WrittenCells ==
    {<<last.inserts[i].date, last.inserts[i].value>> : i \in DOMAIN last.inserts}
    \cup {<<last.updates[i].date, last.updates[i].value>> : i \in DOMAIN last.updates}

WrittenDates == {w[1] : w \in WrittenCells}

InsertedDates == {last.inserts[i].date : i \in DOMAIN last.inserts}

LastColumn == ColumnName(interval, last.col)

\* C1: a second run over the same unchanged upstream series, right after a run
\* that completed, inserts no row and updates no cell, for every pair.
C1_SecondRunWritesNothing ==
    (last.op = "ingest" /\ rerun) => (last.inserts = <<>> /\ last.updates = <<>>)

\* C6: gap-fill completeness.  When the column has a value, no null cell is left
\* after the fill, a cell dated before the first valued row holds that first
\* value and every other formerly-null cell holds the value of the nearest
\* earlier valued row; when the column has no value, nothing is written.
FilledValue(t, suffix, d) ==
    LET valued == {r \in t : r.cells[suffix] # {}}
        first == CHOOSE r \in valued : \A x \in valued : r.date <= x.date
        earlier == {r \in valued : r.date < d}
    IN IF earlier = {} THEN first.cells[suffix]
       ELSE (CHOOSE r \in earlier : \A x \in earlier : x.date <= r.date).cells[suffix]

FillComplete(t, t2, suffix, updates) ==
    IF \A r \in t : r.cells[suffix] = {}
    THEN t2 = t /\ updates = <<>>
    ELSE /\ \A r2 \in t2 : r2.cells[suffix] # {}
         /\ \A r \in t : r.cells[suffix] = {} =>
               \E r2 \in t2 : /\ r2.pk = r.pk
                              /\ r2.cells[suffix] = FilledValue(t, suffix, r.date)

C6_GapFillComplete ==
    [][last'.op = "fill" => FillComplete(tbl, tbl', last'.col, last'.updates)]_vars

\* C6 witness: a fill that wrote a cell before the first valued row and a cell
\* after a later valued row that holds another value than the first
C6_Witness ==
    /\ last.op = "fill"
    /\ \E i, j \in DOMAIN last.updates :
          /\ last.updates[i].date < last.updates[j].date
          /\ last.updates[i].value # last.updates[j].value
          /\ \E r \in tbl : /\ last.updates[i].date < r.date
                            /\ r.date < last.updates[j].date
                            /\ r.cells[last.col] = {last.updates[i].value}
                            /\ \A k \in DOMAIN last.updates : last.updates[k].date # r.date

\* C7: the table holds at most one row per date after any sequence of ingestion
\* and gap-fill passes; a date that has a row is updated, never inserted again.
OneRowPerDate(t) == \A r1, r2 \in t : r1.date = r2.date => r1 = r2

C7_OneRowPerDate ==
    /\ OneRowPerDate(tbl)
    /\ OneRowPerDate(ctbl)
    /\ last.op = "ingest" => InsertedDates \cap last.rows_before = {}

\* C7 witness: a pass that updated the row of a date another pair had created
C7_Witness ==
    /\ last.op = "ingest"
    /\ last.updates # <<>>
    /\ \E r \in tbl : /\ r.date = last.updates[1].date
                      /\ \A s \in Suffixes : r.cells[s] # {}

\* C8: an ingestion pass never stores a value of its column at a date less than
\* or equal to the watermark read at the start of the pass (shifted weekly rate
\* column included).
C8_NothingAtOrBelowWatermark ==
    (last.op = "ingest" /\ last.watermark # {}) =>
        \A d \in WrittenDates : d > SetMax(last.watermark)

\* C9 as stated: for a column that is not shifted, a pass writes exactly the
\* upstream entries dated after the watermark that have a convertible value,
\* each with its upstream value, inserting a row for each such date without one.
C9_WritesUpstreamValue ==
    (last.op = "ingest" /\ LastColumn # "WEFFRP_value") =>
        /\ WrittenCells = {<<d, last.upstream[d]>> : d \in DOMAIN last.upstream}
        /\ InsertedDates = DOMAIN last.upstream \ last.rows_before
        /\ Len(last.inserts) = Cardinality(InsertedDates)

\* C9 amended: the value written is the upstream value converted to the type of
\* the column: the float itself, or its integer part for an integer column.
TypedValue(column_name, v) ==
    IF column_name \in IntColumns THEN (v \div 100) * 100 ELSE v

C9_WritesConvertedValue ==
    (last.op = "ingest" /\ LastColumn # "WEFFRP_value") =>
        /\ WrittenCells =
              {<<d, TypedValue(LastColumn, last.upstream[d])>> : d \in DOMAIN last.upstream}
        /\ InsertedDates = DOMAIN last.upstream \ last.rows_before
        /\ Len(last.inserts) = Cardinality(InsertedDates)

\* C9 witness: with the watermark on a day d, upstream serves day d + 1 = "5.5"
\* and an entry of day d; exactly one row is inserted, day d + 1 with 5.5
C9_Witness ==
    /\ last.op = "ingest"
    /\ LastColumn # "WEFFRP_value"
    /\ last.watermark = {FirstDay}
    /\ last.old = 1
    /\ last.updates = <<>>
    /\ Len(last.inserts) = 1
    /\ last.inserts[1].date = FirstDay + 1
    /\ last.inserts[1].value = 550

\* C21: an upstream value that cannot be converted is skipped (every cell a
\* pass writes comes from an entry with a convertible value), its warning is
\* printed at most once in the run, and every entry of the series with a
\* convertible value (dated after the watermark and not dropped by the weekly
\* shift) is stored by the same pass.
C21_ConversionFailureLocal ==
    /\ \A i, j \in DOMAIN printed : i # j => printed[i] # printed[j]
    /\ last.op = "ingest" =>
          /\ \A w \in WrittenCells : \E d \in DOMAIN last.upstream :
                w = <<StoredDate(LastColumn, d), TypedValue(LastColumn, last.upstream[d])>>
          /\ \A d \in DOMAIN last.upstream :
                ~DropOnWatermark(LastColumn, StoredDate(LastColumn, d), last.prev_date) =>
                    /\ <<StoredDate(LastColumn, d), TypedValue(LastColumn, last.upstream[d])>>
                           \in WrittenCells
                    /\ \E r \in tbl :
                          /\ r.date = StoredDate(LastColumn, d)
                          /\ r.cells[last.col] = {TypedValue(LastColumn, last.upstream[d])}

\* C21 witness: the first pass of a run meets a value it cannot convert,
\* prints the warning and stores the other entry of the series
C21_Witness ==
    /\ last.op = "ingest"
    /\ nops = 1
    /\ printed = <<<<"abc", LastColumn>>>>
    /\ shown_warnings = {<<"abc", LastColumn>>}
    /\ Len(last.inserts) = 1
    /\ DOMAIN last.upstream = {FirstDay}
    /\ \E r \in tbl : r.cells[last.col] = {TypedValue(LastColumn, last.upstream[FirstDay])}

\* the quarter and year a stored row is filed under (as _extract_qy reads them)
RowQY(r) == ExtractQY(r.notes, r.start, r.ann)

\* the quarter and year an incoming earnings event carries in its details
EventQY(e) == <<Get(e.details, "quarter"), Get(e.details, "year")>>

EarningsRowsOf(rows, qy) == {r \in rows : r.event_pk = 2 /\ RowQY(r) = qy}

EarningsEventsOf(events, qy) ==
    {i \in DOMAIN events : events[i].event_pk = 2 /\ EventQY(events[i]) = qy}

\* C2: starting from a table whose rows have pairwise distinct identity keys,
\* after batch_insert_events has applied any incoming batch no two stored
\* events share an identity key (kind, announcement_date, start_date).
C2_EventKeysUnique ==
    (elast.op = "batch" /\ ~HasDuplicateKeys(elast.before)) => ~HasDuplicateKeys(ev)

\* the case of C3: p is the stored placeholder of its quarter and the only
\* earnings row of that quarter, events[i] is the one incoming earnings event
\* of that quarter, an actual with another announcement date
PromotionCase(p, i) ==
    /\ elast.op = "batch"
    /\ p \in elast.before /\ IsExpectedRow(p)
    /\ EarningsRowsOf(elast.before, RowQY(p)) = {p}
    /\ i \in DOMAIN elast.events
    /\ IsNewActual(elast.events[i])
    /\ EventQY(elast.events[i]) = RowQY(p)
    /\ elast.events[i].ann # p.ann
    /\ EarningsEventsOf(elast.events, RowQY(p)) = {i}

\* C3: given a stored expected-earnings placeholder for (q, y) and an incoming
\* actual earnings event with the same (q, y) but another announcement date,
\* after batch_insert_events exactly one earnings event for (q, y) is stored,
\* its details carry no estimate, and the placeholder row is gone.
C3_PlaceholderPromoted ==
    \A p \in elast.before : \A i \in DOMAIN elast.events :
        PromotionCase(p, i) =>
            /\ p \notin ev
            /\ \E r \in ev : /\ EarningsRowsOf(ev, RowQY(p)) = {r}
                             /\ Get(r.notes, "estimate") = {}
                             /\ RowKey(r) = EventKey(2, elast.events[i].ann,
                                                     elast.events[i].start)

\* C3 witness: a promotion where the actual also reports on another day than
\* the placeholder announced, so only the quarter links the two
C3_Witness ==
    \E p \in elast.before : \E i \in DOMAIN elast.events :
        /\ PromotionCase(p, i)
        /\ elast.events[i].start # p.start
        /\ p.pk \in elast.plan.expected_to_delete

\* the indicator phase of the run is over
IndicatorsOver ==
    \/ pc \in {"fill", "events", "asset", "others", "commit", "close"}
    \/ pc = "done" /\ result.after # "connect"

\* C5: if the fetch for one indicator/interval pair raises or returns a payload
\* without the expected list of entries, that pair is skipped and every
\* remaining pair is still fetched and ingested in the same run.
C5_RemainingPairsIngested ==
    IndicatorsOver => \A suffix \in Range(items) : suffix \in passed \cup skipped

\* C4: for one asset, the deletes, updates and inserts of one
\* batch_insert_events call either all take effect in the committed store, or
\* the failure is recorded in that asset's warnings list and none of them is
\* committed.
C4_PlanAtomic ==
    (pc = "done" /\ result.after = "close" /\ elast.op # "none") =>
        \/ cev = ApplyPlan(elast.before, elast.plan)
        \/ warnings # {} /\ cev = elast.before

\* C10: resolve_EIE never propagates an exception: whatever step fails, the call
\* returns a result object, and a failure that stops the run yields success =
\* false with an error message.
C10_NeverPropagates ==
    /\ result.kind # "raised"
    /\ pc = "done" =>
          /\ result.kind = "returned"
          /\ result.after # "close" => (~result.success /\ result.error # "")

\* C10 witness: the indicator phase failed, then listing the assets failed and
\* the call returned success = false
C10_Witness ==
    /\ pc = "done" /\ result.after = "events" /\ skipped # {}
    /\ result.kind = "returned" /\ ~result.success

\* the state connect_with_retries and the return at line 799 may be in
RetryBounded ==
    /\ attempts <= MaxRetries
    /\ pc = "connect" => sleeps = attempts
    /\ (pc \notin {"connect", "idle"} /\ result.after # "connect") => sleeps = attempts - 1
    /\ result.after = "connect" =>
          /\ attempts = MaxRetries /\ sleeps = MaxRetries - 1
          /\ pc = "done" /\ result.kind = "returned" /\ ~result.success
          /\ passed = {} /\ skipped = {} /\ step = 0
          /\ tbl \in RunSeries(interval) /\ ctbl = tbl /\ last.op = "none"
          /\ elast.op = "none" /\ ev = cev

EventPhase == pc \in {"events", "asset", "others", "commit"}

\* C13: every row or cell the indicator phase wrote is committed before the
\* first statement of the event phase, and a failure while processing one
\* asset's events neither rolls back that committed work nor stops the
\* remaining assets from being processed.
C13_CommitOrdering ==
    /\ [](EventPhase => tbl = ctbl)
    /\ [][EventPhase => ctbl' = ctbl]_vars
    /\ []((pc \in {"commit", "close", "done"} /\ others # "") => others # "skipped")

(***************************************************************************)
(* Claims about the asset list, the sort and the pure helpers              *)
(***************************************************************************)
\* assets with a provisioned schema that the reference list names
Eligible(schema_symbols, view_symbols) ==
    {sym \in schema_symbols : \E v \in view_symbols : Upper[v] = sym}

\* C12: with a ticker filter, event processing touches exactly the eligible
\* assets whose symbol equals a filter entry ignoring case and no asset outside
\* the filter; with the filter absent or empty, all eligible assets.
C12_FilterRestricts ==
    (fname = "us_symbols" /\ fin.tickers_list.kind # "text") =>
        fout = IF fin.tickers_list.val # <<>>
               THEN {sym \in Eligible(fin.schema_symbols, fin.view_symbols) :
                        \E t \in Range(fin.tickers_list.val) : Upper[t] = sym}
               ELSE Eligible(fin.schema_symbols, fin.view_symbols)

\* the kind an incoming event belongs to
KindOf(e) ==
    IF e.event_pk = 1 THEN "dividends"
    ELSE IF e.event_pk = 3 THEN "splits"
    ELSE IF e.event_pk = 4 THEN "rate"
    ELSE IF "estimate" \in DOMAIN e.details THEN "earnings_calendar" ELSE "earnings"

\* the events of one kind among the asset's incoming events
EventsOfKind(all_events, kind) ==
    {i \in DOMAIN all_events : KindOf(all_events[i]) = kind}

\* the asset's incoming events hold exactly the events es of the kind
HoldsOfKind(all_events, kind, es) ==
    /\ Cardinality(EventsOfKind(all_events, kind)) = Len(es)
    /\ {all_events[i] : i \in EventsOfKind(all_events, kind)} = Range(es)

\* every kind is fetched, a kind is warned about exactly when its response is
\* bad, and every incoming event is stored
KindsIsolated ==
    /\ fout.fetched = Range(kinds)
    /\ \A i \in DOMAIN kinds :
          (fin.resps[kinds[i]].outcome # "ok") <=> (\E w \in fout.warnings : w[1] = kinds[i])
    /\ \A i \in DOMAIN fout.all_events :
          \E r \in fout.stored :
              RowKey(r) = EventKey(fout.all_events[i].event_pk, fout.all_events[i].ann,
                                   fout.all_events[i].start)

Unmatched(rows, e) ==
    \A r \in rows : RowKey(r) # EventKey(e.event_pk, e.ann, e.start)

\* the table holds a row with the event's key and payload that was not there
\* before
StoredFor(rows, before, e) ==
    \E r \in rows \ before :
        /\ RowKey(r) = EventKey(e.event_pk, e.ann, e.start)
        /\ r.notes = StoredNotes(e.details)

\* C15: an incoming actual earnings event whose identity key matches no
\* stored event is queued for insert and stored, whether or not a placeholder
\* matches its quarter/year or start date.
C15_UnmatchedActualStored ==
    elast.op = "batch" =>
        \A i \in DOMAIN elast.events :
            (IsNewActual(elast.events[i]) /\ Unmatched(elast.before, elast.events[i])) =>
                /\ elast.events[i] \in Range(elast.plan.new_events)
                /\ StoredFor(ev, elast.before, elast.events[i])

C15_Witness ==
    /\ elast.op = "batch"
    /\ \E r \in elast.before : IsExpectedRow(r)
    /\ \E i \in DOMAIN elast.events :
          /\ IsNewActual(elast.events[i])
          /\ Unmatched(elast.before, elast.events[i])
          /\ PlaceholdersOf(elast.before, elast.events[i]) = {}
          /\ StoredFor(ev, elast.before, elast.events[i])

\* the stored row's kind, dates and identifiers, its payload apart
Identity(r) == [pk |-> r.pk, id |-> r.id, event_pk |-> r.event_pk, ann |-> r.ann, start |-> r.start]

\* the pks the plan's promotion updates name
UpdatedPks(plan) == {plan.events_to_update[i].pk : i \in DOMAIN plan.events_to_update}

\* C16: batch_insert_events deletes or updates only stored rows that are
\* expected-earnings placeholders: every other stored row is still there,
\* unchanged, and a row that a promotion updated keeps its kind, its
\* announcement and start dates and its identifiers, only its payload changes.
C16_OnlyPlaceholdersChange ==
    elast.op = "batch" =>
        \A r \in elast.before :
            /\ ~IsExpectedRow(r) => r \in ev
            /\ r \notin ev =>
                  r.pk \in elast.plan.expected_to_delete \cup UpdatedPks(elast.plan)
            /\ (r.pk \in UpdatedPks(elast.plan) /\ r.pk \notin elast.plan.expected_to_delete) =>
                  \E x \in ev : Identity(x) = Identity(r)

C16_Witness ==
    /\ elast.op = "batch"
    /\ \E r \in elast.before : ~IsExpectedRow(r) /\ r \in ev
    /\ \E r \in elast.before :
          /\ r.pk \in UpdatedPks(elast.plan)
          /\ r \notin ev
          /\ \E x \in ev : Identity(x) = Identity(r) /\ x.notes # r.notes

(***************************************************************************)
(* Claims about the sort and the pure helpers                              *)
(***************************************************************************)
\* the place of an event among the events of one announcement date: dividend,
\* actual earnings, expected earnings, split, rate
Rank(e) ==
    IF e.event_pk = 1 THEN 1
    ELSE IF e.event_pk = 2 THEN (IF Get(e.details, "estimate") = {} THEN 2 ELSE 3)
    ELSE IF e.event_pk = 3 THEN 4 ELSE 5

\* event a may stand before event b
InOrder(a, b) ==
    /\ (a.ann # {} /\ b.ann # {}) => SetMax(a.ann) <= SetMax(b.ann)
    /\ a.ann = {} => b.ann = {}
    /\ a.ann = b.ann => Rank(a) <= Rank(b)

\* the same events, each as often
SameEvents(s, t) ==
    /\ Len(s) = Len(t)
    /\ \A e \in Range(s) \cup Range(t) :
          Cardinality({i \in DOMAIN s : s[i] = e}) = Cardinality({i \in DOMAIN t : t[i] = e})

\* C17: after the sort the incoming events are the same events in
\* non-decreasing announcement_date order, those without an announcement
\* date last; among the events of one announcement date a dividend precedes
\* an actual earnings event, which precedes an expected earnings event, which
\* precedes a split, which precedes a rate event.
C17_SortOrder ==
    fname = "sort" =>
        /\ SameEvents(fin, fout)
        /\ \A i, j \in DOMAIN fout : i < j => InOrder(fout[i], fout[j])

C17_Witness ==
    /\ fname = "sort"
    /\ Len(fin) = 3
    /\ fin[1].ann = {} /\ fin[2].ann = {1} /\ fin[3].ann = {1}
    /\ fin[2].event_pk = 2 /\ Get(fin[2].details, "estimate") # {}
    /\ fin[3].event_pk = 2 /\ Get(fin[3].details, "estimate") = {}
    /\ fout = <<fin[3], fin[2], fin[1]>>

\* C18: compute_split_ratio_str returns "N-for-1" for a factor N greater than
\* 1, "Reverse N-for-1" for a factor 1/N below 1, and null when the factor is
\* 1, missing, empty or no number; 2.0 gives "2-for-1" and 0.5 gives
\* "Reverse 2-for-1".
C18_SplitRatio ==
    fname = "compute_split_ratio_str" =>
        /\ fin.kind \in {"none", "empty", "text"} => fout = {}
        /\ (fin.kind = "num" /\ fin.num = fin.den) => fout = {}
        /\ \A N \in 2..MaxFactor :
              /\ (fin.kind = "num" /\ fin.num = N * fin.den) =>
                    fout = {ToString(N) \o "-for-1"}
              /\ (fin.kind = "num" /\ fin.den = N * fin.num) =>
                    fout = {"Reverse " \o ToString(N) \o "-for-1"}
        /\ fin = [kind |-> "num", num |-> 2, den |-> 1] => fout = {"2-for-1"}
        /\ fin = [kind |-> "num", num |-> 1, den |-> 2] => fout = {"Reverse 2-for-1"}

C18_Witness ==
    /\ fname = "compute_split_ratio_str"
    /\ fin = [kind |-> "num", num |-> 2, den |-> 4]
    /\ fout = {"Reverse 2-for-1"}

\* the retained entries are the most recent of the fetched series: no usable
\* record left out is dated after a retained one
MostRecent(retained, ff_data) ==
    \A p \in ParsedRecords(ff_data) \ Range(retained) :
        \A i \in DOMAIN retained : p[1] <= retained[i][1]

\* C19: the rate series retained for all assets has at most 12 entries, they
\* are the most recent periods of the fetched series, and no two retained
\* entries have the same date.
C19_RateSeriesDistinctDates ==
    fname = "federal_funds_rates" =>
        /\ Len(fout) <= RateKeep
        /\ MostRecent(fout, fin)
        /\ \A i, j \in DOMAIN fout : i # j => fout[i][1] # fout[j][1]

\* the run yields nothing to insert, update or delete for the asset
NothingNew == fout.plan = EmptyPlan

\* C20: for every processed asset for which the run yields zero new events
\* (nothing to insert, update or delete), the asset is recorded in the
\* no-new-events list and no warning or error is recorded for it.
C20_NoNewEventsRecorded ==
    (fname = "asset_events" /\ NothingNew) =>
        /\ fout.assets_no_new_events
        /\ fout.warnings = {}

(***************************************************************************)
(* Claims about concurrent runs                                            *)
(***************************************************************************)
\* two rows of the interval table for one date, or with one identifier
TwoRowsOneDate == \E r1, r2 \in ctbl : r1 # r2 /\ r1.date = r2.date

TwoRowsOneId == \E r1, r2 \in ctbl : r1 # r2 /\ r1.id = r2.id

\* C22: two runs that interleave on the store can both read the same
\* watermark, maximum identifier and existing events and both insert, leaving
\* two rows for one date, two rows with one identifier and two events with one
\* identity key (the witness); this happens only to a run that writes after
\* the other committed between its read and its write.
C22_ConcurrentRunsUnsafe ==
    /\ (TwoRowsOneDate \/ TwoRowsOneId) => \E r \in Runs : runs[r].stale
    /\ HasDuplicateKeys(cev) => \E r \in Runs : runs[r].estale

C22_Witness ==
    /\ \A r \in Runs : runs[r].pc = "done"
    /\ TwoRowsOneDate
    /\ TwoRowsOneId
    /\ HasDuplicateKeys(cev)

\* the plan queues an update of the row with the event's payload
UpdateQueued(plan, r, e) ==
    \E i \in DOMAIN plan.events_to_update :
        plan.events_to_update[i] = [pk |-> r.pk, notes |-> e.details]

\* the plan inserts no event with the key of e
NotInserted(plan, e) ==
    \A j \in DOMAIN plan.new_events :
        EventKey(plan.new_events[j].event_pk, plan.new_events[j].ann, plan.new_events[j].start)
            # EventKey(e.event_pk, e.ann, e.start)

\* C23: when an incoming event's identity key equals the key of a stored row
\* (the stored keys being distinct), the event is not inserted, and an update
\* of that row with the event's payload is queued if and only if the row is a
\* placeholder and the event an actual earnings result.
C23_ExactKeyMatch ==
    (elast.op = "batch" /\ ~HasDuplicateKeys(elast.before)) =>
        \A i \in DOMAIN elast.events : \A r \in elast.before :
            RowKey(r) = EventKey(elast.events[i].event_pk, elast.events[i].ann,
                                 elast.events[i].start) =>
                /\ NotInserted(elast.plan, elast.events[i])
                /\ UpdateQueued(elast.plan, r, elast.events[i])
                       <=> (IsExpectedRow(r) /\ IsNewActual(elast.events[i]))

C23_Witness ==
    /\ elast.op = "batch"
    /\ ~HasDuplicateKeys(elast.before)
    /\ Len(elast.events) = 2
    /\ elast.plan.new_events = <<>>
    /\ Len(elast.plan.events_to_update) = 1
    /\ \E r \in elast.before : \E i \in DOMAIN elast.events :
          /\ UpdateQueued(elast.plan, r, elast.events[i])
          /\ IsExpectedRow(r)
    /\ \E r \in elast.before : \E i \in DOMAIN elast.events :
          /\ RowKey(r) = EventKey(elast.events[i].event_pk, elast.events[i].ann,
                                  elast.events[i].start)
          /\ ~IsExpectedRow(r)
          /\ r \in ev

\* the orderings of a batch
Orderings(events) ==
    {[i \in DOMAIN events |-> events[p[i]]] :
        p \in {f \in [DOMAIN events -> DOMAIN events] :
                  \A i, j \in DOMAIN events : i # j => f[i] # f[j]}}

\* a stored row without the key and identifier it was given
Unnumbered(r) == [event_pk |-> r.event_pk, ann |-> r.ann, start |-> r.start, notes |-> r.notes]

\* two plans delete the same rows, update the same rows with the same
\* payloads and insert the same events
SamePlan(p, q) ==
    /\ p.expected_to_delete = q.expected_to_delete
    /\ SameEvents(p.events_to_update, q.events_to_update)
    /\ SameEvents(p.new_events, q.new_events)

C25_RerunDoesNothing ==
    (elast.op = "batch" /\ ecalls = 2) =>
        /\ elast.plan = EmptyPlan
        /\ elast.ret = 0
        /\ ev = elast.before

\* C26: after a batch_insert_events call that raised no error every incoming
\* event's identity key is the key of some stored row, and no stored row is
\* queued both for deletion and for a detail update by the same call.
C26_NoEventLost ==
    elast.op = "batch" =>
        /\ \A i \in DOMAIN elast.events : \E r \in ev :
              RowKey(r) = EventKey(elast.events[i].event_pk, elast.events[i].ann,
                                   elast.events[i].start)
        /\ elast.plan.expected_to_delete \cap UpdatedPks(elast.plan) = {}

\* C27: an earnings event that batch_insert_events treated as an actual result
\* when it arrived (no non-null estimate in its details) is not classified as
\* a placeholder when the row stored for it is read back.
C27_ActualNeverPlaceholder ==
    elast.op = "batch" =>
        \A i \in DOMAIN elast.plan.new_events :
            IsNewActual(elast.plan.new_events[i]) =>
                \A r \in ev :
                    (/\ RowKey(r) = EventKey(elast.plan.new_events[i].event_pk,
                                             elast.plan.new_events[i].ann,
                                             elast.plan.new_events[i].start)
                     /\ r.notes = StoredNotes(elast.plan.new_events[i].details))
                        => ~IsExpectedRow(r)

\* C28: only the weekly federal-funds-rate column is stored at the upstream
\* date minus 5 days, every other column at the upstream date; the shift
\* precedes the comparison with the watermark, so a pass writes exactly the
\* stored dates that lie after the watermark, and a shifted date equal to the
\* watermark is dropped.
C28_ShiftBeforeComparison ==
    last.op = "ingest" =>
        WrittenDates =
            IF LastColumn = "WEFFRP_value"
            THEN {d - ShiftDays : d \in {x \in DOMAIN last.upstream :
                                            x - ShiftDays > last.prev_date}}
            ELSE DOMAIN last.upstream

\* the column at position step of the fill loop
FillColumn == items[step]

\* the cells of table t that hold a value
Valued(t) ==
    {w \in {<<r.pk, r.date, s, r.cells[s]>> : r \in t, s \in Suffixes} : w[4] # {}}

\* C29: the fill of each column ends in its own commit or rollback, so nothing
\* is left uncommitted after it; a fill that fails changes nothing in the
\* store, every value committed before it (by ingestion or by the fill of an
\* earlier column) stays, a fill that succeeds commits exactly the fill of its
\* column, and in both cases the loop goes on to the next column.
C29_FillCommittedPerColumn ==
    [][pc = "fill" =>
          /\ tbl' = ctbl'
          /\ Valued(ctbl) \subseteq Valued(ctbl')
          /\ \/ ctbl' = ctbl /\ printed' # printed
             \/ /\ ctbl' = forward_backward_fill_indicator(tbl, FillColumn).tbl
                /\ printed' = printed
          /\ IF step < Len(items) THEN pc' = "fill" /\ step' = step + 1
             ELSE pc' = "events"]_vars

\* C29 witness: the fill of the first column was committed on a row the second
\* pair had inserted, the fill of the second column failed, and the first
\* column's filled value is in the committed store
C29_Witness ==
    /\ pc = "events"
    /\ last.op = "ingest" /\ last.col = items[2]
    /\ \E r \in ctbl : r.date \in InsertedDates /\ r.cells[items[1]] # {}
    /\ printed = <<FillWarning(ColumnName(interval, items[2]))>>

\* C30: in one run the gap-fill comes after the ingestion phase and is applied
\* only to the columns of the pairs ingested in that run: the fill of a column
\* whose pair was skipped or found already up to date changes nothing.
C30_FillOnlyIngested ==
    [][(pc = "fill" /\ tbl' # tbl) => FillColumn \in ingested]_vars

\* the rows of t without the cells of one column
Frame(t, suffix) ==
    {[pk |-> r.pk, id |-> r.id, date |-> r.date,
      cells |-> [s \in Suffixes \ {suffix} |-> r.cells[s]]] : r \in t}

\* C31: forward_backward_fill_indicator changes only cells of the given column
\* that were null before the call: an update is written only for a date whose
\* cell was null, every non-null cell, every other column and the set of rows
\* are unchanged, and a second application right after the first changes
\* nothing.
C31_FillFrame ==
    [][last'.op = "fill" =>
          /\ Frame(tbl', last'.col) = Frame(tbl, last'.col)
          /\ \A r \in tbl : r.cells[last'.col] # {} => r \in tbl'
          /\ \A i \in DOMAIN last'.updates :
                \E r \in tbl : r.date = last'.updates[i].date /\ r.cells[last'.col] = {}
          /\ forward_backward_fill_indicator(tbl', last'.col)
                = [tbl |-> tbl', updates |-> <<>>]]_vars

\* C31 witness: a fill that wrote a cell of its column in a table that also
\* holds a valued cell of that column and a null cell of another column
C31_Witness ==
    /\ last.op = "fill"
    /\ last.updates # <<>>
    /\ \E r \in tbl : \A i \in DOMAIN last.updates : last.updates[i].date # r.date
    /\ \E r \in tbl : \E s \in Suffixes \ {last.col} : r.cells[s] = {}

\* C32: a cell that gap-fill populated with a carried value holds the real
\* upstream value after the next ingestion pass of its indicator, when upstream
\* supplies a value for that date.
C32_RealReplacesFilled ==
    [][(last.op = "fill" /\ last'.op = "ingest" /\ last'.col = last.col) =>
          \A i \in DOMAIN last.updates : \A k \in DOMAIN upstream[last.col] :
              (/\ StoredDate(ColumnName(interval, last.col), upstream[last.col][k].date)
                     = last.updates[i].date
               /\ upstream[last.col][k].value \in DOMAIN FloatOf)
              => \E r \in tbl' :
                    /\ r.date = last.updates[i].date
                    /\ r.cells[last.col] =
                          {TypedValue(ColumnName(interval, last.col),
                                      FloatOf[upstream[last.col][k].value])}]_vars

\* the rows of the table before the last call that its deletes left
KeptRows == {r \in elast.before : r.pk \notin elast.plan.expected_to_delete}

\* the row the last call stored for its i-th new event, under key pk and
\* identifier id
StoredAs(i, pk, id) ==
    [pk |-> pk, id |-> id, event_pk |-> elast.plan.new_events[i].event_pk,
     ann |-> elast.plan.new_events[i].ann, start |-> elast.plan.new_events[i].start,
     notes |-> StoredNotes(elast.plan.new_events[i].details)]

\* C33: within one call the deletes are issued before the updates and the
\* updates before the bulk insert, and the keys of the new rows are read after
\* the deletes and updates: a deleted row is gone whether or not an update was
\* queued for it, every other row keeps its key with the last notes queued for
\* it, and the new rows are numbered from the maxima of the rows that are left.
C33_DeleteUpdateInsert ==
    elast.op = "batch" =>
        /\ \A r \in KeptRows : \E q \in ev :
              /\ q.pk = r.pk /\ q.id = r.id /\ RowKey(q) = RowKey(r)
              /\ \A i \in DOMAIN elast.plan.events_to_update :
                    (/\ elast.plan.events_to_update[i].pk = r.pk
                     /\ \A j \in DOMAIN elast.plan.events_to_update :
                           elast.plan.events_to_update[j].pk = r.pk => j <= i)
                    => q.notes = elast.plan.events_to_update[i].notes
        /\ \A i \in DOMAIN elast.plan.new_events :
              StoredAs(i, EvMaxPk(KeptRows) + i, EvMaxId(KeptRows) + i) \in ev
        /\ Cardinality(ev) = Cardinality(KeptRows) + Len(elast.plan.new_events)

\* C33 witness: a call that deleted the placeholder holding the highest key
\* and inserted a new row, which took that key again
C33_Witness ==
    /\ elast.op = "batch"
    /\ elast.plan.new_events # <<>>
    /\ EvMaxPk(elast.before) \in elast.plan.expected_to_delete
    /\ \E r \in ev : r.pk = EvMaxPk(elast.before)

\* C34: the rows one call inserts receive the surrogate keys max_pk + 1,
\* max_pk + 2, ... and the identifiers max_id + 1, max_id + 2, ... in insertion
\* order, the maxima being those of the asset's table when they are read (0 for
\* an empty table); after any sequence of calls no two stored rows share a
\* surrogate key.
C34_EventKeysContiguous ==
    /\ \A r1, r2 \in ev : r1.pk = r2.pk => r1 = r2
    /\ elast.op = "batch" =>
          /\ {r.pk : r \in ev} \ {r.pk : r \in KeptRows}
                = {EvMaxPk(KeptRows) + i : i \in DOMAIN elast.plan.new_events}
          /\ {r.id : r \in ev \ {q \in ev : q.pk \in {k.pk : k \in KeptRows}}}
                = {EvMaxId(KeptRows) + i : i \in DOMAIN elast.plan.new_events}
          /\ \A i, j \in DOMAIN elast.plan.new_events : i < j =>
                \E r1, r2 \in ev :
                    /\ r1 = StoredAs(i, r1.pk, r1.id) /\ r2 = StoredAs(j, r2.pk, r2.id)
                    /\ r2.pk - r1.pk = j - i /\ r2.id - r1.id = j - i

\* C34 witness: a call that inserted two rows into a table that held rows
C34_Witness ==
    /\ elast.op = "batch"
    /\ Len(elast.plan.new_events) = 2
    /\ KeptRows # {}
    /\ Cardinality({r.pk : r \in ev}) = Cardinality(KeptRows) + 2

\* the rows of the table that were there before the last ingestion pass
RowsBeforePass == {r \in tbl : r.date \in last.rows_before}

\* C35: the rows one ingestion pass inserts receive the identifiers max + 1,
\* max + 2, ... without gaps, in chronological order, max being the highest
\* identifier of the table before the pass; a date that is only updated
\* consumes no identifier and no inserted identifier is one of the table.
C35_IndicatorIdsContiguous ==
    last.op = "ingest" =>
        /\ \A k \in DOMAIN last.inserts : last.inserts[k].id = MaxId(RowsBeforePass) + k
        /\ \A j, k \in DOMAIN last.inserts :
              j < k => last.inserts[j].date < last.inserts[k].date
        /\ \A k \in DOMAIN last.inserts : \A r \in RowsBeforePass : r.id # last.inserts[k].id

\* C36: resolve_EIE returns success = true only if the final commit of the run
\* succeeded; a run whose final commit failed does not return success = true.
C36_SuccessReflectsCommit ==
    (pc = "done" /\ result.kind = "returned" /\ result.success)
        => \A i \in DOMAIN printed : printed[i] # CommitWarning

\* the tables the run may have started from, given the committed table
StartTables ==
    {t \in RunSeries(interval) : \A r \in t : \E q \in ctbl : q.pk = r.pk /\ q.date = r.date}

\* C37: the indicators_inserted value of the result is the number of indicator
\* rows the run inserted and committed, that is the number of rows the
\* committed table gained over the table the run started from, also when the
\* indicator phase stopped early after earlier pairs were committed.
C37_InsertedIsCommittedCount ==
    (pc = "done" /\ result.kind = "returned" /\ result.success) =>
        \E t \in StartTables :
            result.indicators_inserted = Cardinality(ctbl) - Cardinality(t)

====
